---- MODULE Spec2Model ----
(***************************************************************************)
(* A model of the Signal messaging core of SignalMessenger:                *)
(*   crypto/Curve25519.js, crypto/HKDF.js, crypto/AES256GCM.js (symbolic), *)
(*   crypto/signal/X3DH.js, DoubleRatchet.js, KeyManager.js,               *)
(*   SessionManager.js and the saga that forks the inbound handlers.       *)
(*                                                                         *)
(* Byte strings are symbolic terms.  A key pair is a number k: its public  *)
(* half is k and its private half is k (0 stands for "no key", null).      *)
(* dh(a, B) is the unordered pair {a, B}; hashes and KDFs are injective    *)
(* term constructors; a ciphertext opens under exactly the key it was      *)
(* sealed with, and only while its bytes are intact.                       *)
(***************************************************************************)
EXTENDS Integers, Sequences, FiniteSets, TLC

VARIABLES
    rs,        \* ratchet level: side -> RatchetState
    net,       \* ratchet level: the messages encrypted and not yet decrypted
    sent,      \* ratchet level: side -> number of messages it encrypted
    evicted,   \* ratchet level: side -> it has jumped over more messages than its cache holds
    nextKey,   \* the number of the next pair generateKeyPair() returns
    inbox,     \* ratchet level: side -> the messages it decrypted
    errs,      \* ratchet level: the decryptions that failed
    store,     \* session level: the device's SecureStorage
    cache,     \* session level: SessionManager._sessions, as the object it holds (0: none)
    heap,      \* session level: the session objects in memory
    tasks,     \* session level: the running encryptMessage / decryptMessage calls
    peer,      \* session level: the remote user's ratchet
    done,      \* session level: the calls that returned or threw
    calls,     \* session level: calls started so far
    now        \* key level: Date.now() of the device

vars == <<rs, net, sent, evicted, nextKey, inbox, errs,
          store, cache, heap, tasks, peer, done, calls, now>>

\* ------------------------------------------------------------------ bounds

\* Messages the two sides of the ratchet-level specification may encrypt in all.
MaxSent == 6
\* encryptMessage / decryptMessage calls the device starts (session level).
MaxCalls == 3
\* Messages the remote user sends to the device (session level).
MaxPeerSent == 2
\* Key pairs the inputs of the X3DH specification are drawn from.
MaxKey == 3
\* consumeOneTimePreKey / generateOneTimePreKeys calls (KeyManager level).
MaxKeyCalls == 3
\* One-time pre-keys one generateOneTimePreKeys call is asked for.
MaxBatch == 2
\* Operations the secure store fails.
MaxFailed == 1

\* DoubleRatchet.js:21 has 1000 and DoubleRatchet.js:22 has 2000; the model
\* runs the same code with the two limits scaled down.
MAX_SKIP == 2
MAX_CACHED_KEYS == 3

Plaintexts == {"hello", "world"}
NoPlaintext == "(none)"

\* ------------------------------------------------------- symbolic primitives

NULL == [null |-> TRUE]
ZERO32 == [zero |-> 32]

\* Curve25519.js dh: nacl.scalarMult(privateKey, publicKey)
dh(privateKey, publicKey) == [dh |-> {privateKey, publicKey}]

\* Curve25519.js concat
concat(parts) == [cat |-> parts]

\* HKDF.js hmacSHA256
hmacSHA256(key, data) == [hmac |-> key, data |-> data]

\* HKDF.js hkdf: extract with the salt, expand with the info to length bytes
hkdf(ikm, salt, info, length) ==
    [ikm |-> ikm, salt |-> salt, info |-> info, length |-> length]

\* Uint8Array.prototype.slice on a derived block
slice(bytes, from, to) == [of |-> bytes, from |-> from, to |-> to]

\* AES256GCM.js encryptAES256GCM + serializeEncrypted: nacl.secretbox under
\* key; the aad argument is accepted and not used.
encryptAES256GCM(plaintext, key, aad) ==
    [key |-> key, pt |-> plaintext, intact |-> TRUE]

\* AES256GCM.js deserializeEncrypted + decryptAES256GCM: nacl.secretbox.open
\* returns null on a wrong key or altered bytes, and the function throws.
decryptAES256GCM(ciphertext, key, aad) ==
    IF ciphertext.key = key /\ ciphertext.intact
    THEN [ok |-> TRUE, plaintext |-> ciphertext.pt]
    ELSE [ok |-> FALSE, plaintext |-> NoPlaintext]

\* A ciphertext whose body had one byte flipped in transit.
Altered(ciphertext) == [ciphertext EXCEPT !.intact = FALSE]

\* generateKeyPair(): the pair numbered k
KeyPair(k) == [publicKey |-> k, privateKey |-> k]

\* Curve25519.js sign / verify (nacl.sign.detached): a signature verifies
\* under the public half of the signing pair that made it, over the same bytes.
sign(message, privateKey) == [signed |-> message, by |-> privateKey]

verify(message, signature, publicKey) ==
    signature = [signed |-> message, by |-> publicKey]

\* ------------------------------------------------------ DoubleRatchet.js KDFs

ROOT_CHAIN_INFO == "WhisperRatchet"
MESSAGE_KEY_INFO == "WhisperMessageKeys"
MESSAGE_KEY_SEED == 1
CHAIN_KEY_SEED == 2

kdfRK(rootKey, dhOut) ==
    LET output == hkdf(dhOut, rootKey, ROOT_CHAIN_INFO, 64)
    IN  [newRootKey |-> slice(output, 0, 32),
         newChainKey |-> slice(output, 32, 64)]

kdfCK(chainKey) ==
    [messageKey |-> hmacSHA256(chainKey, MESSAGE_KEY_SEED),
     nextChainKey |-> hmacSHA256(chainKey, CHAIN_KEY_SEED)]

deriveMessageKeys(messageKey) ==
    LET output == hkdf(messageKey, ZERO32, MESSAGE_KEY_INFO, 80)
    IN  [encKey |-> slice(output, 0, 32),
         authKey |-> slice(output, 32, 64),
         iv |-> slice(output, 64, 80)]

\* serializeHeader: dh || pn_u32_be || n_u32_be
serializeHeader(header) == concat(<<header.dh, header.pn, header.n>>)

\* ------------------------------------------- the skipped-key Map (insertion order)

\* A JavaScript Map as the sequence of its entries in insertion order.
MapHas(map, key) == \E i \in 1..Len(map) : map[i].k = key

MapGet(map, key) == map[CHOOSE i \in 1..Len(map) : map[i].k = key].mk

\* Map.prototype.set: an existing key keeps its place, a new key goes last.
MapSet(map, key, value) ==
    IF MapHas(map, key)
    THEN [i \in 1..Len(map) |->
            IF map[i].k = key THEN [k |-> key, mk |-> value] ELSE map[i]]
    ELSE Append(map, [k |-> key, mk |-> value])

\* Map.prototype.delete
MapDelete(map, key) == SelectSeq(map, LAMBDA e : e.k # key)

\* `${bytesToBase64(dh)}_${n}`
MapKey(dhPublic, n) == <<dhPublic, n>>

\* ------------------------------------------------- DoubleRatchet.js: the ratchet

initializeSender(masterSecret, bobDHPublicKey, dhPair) ==
    LET dhOut == dh(dhPair.privateKey, bobDHPublicKey)
        k == kdfRK(masterSecret, dhOut)
    IN  [DHs |-> dhPair, DHr |-> bobDHPublicKey, RK |-> k.newRootKey,
         CKs |-> k.newChainKey, CKr |-> NULL, Ns |-> 0, Nr |-> 0, PN |-> 0,
         MKSKIPPED |-> <<>>]

initializeReceiver(masterSecret, bobSignedPreKeyPair) ==
    [DHs |-> bobSignedPreKeyPair, DHr |-> 0, RK |-> masterSecret,
     CKs |-> NULL, CKr |-> NULL, Ns |-> 0, Nr |-> 0, PN |-> 0,
     MKSKIPPED |-> <<>>]

\* A ratchetEncrypt that leaves the sending chain key where it was.
ratchetEncryptSameChainKey(state, plaintext) ==
    IF state.CKs = NULL
    THEN [ok |-> FALSE, state |-> state, header |-> [dh |-> 0, pn |-> 0, n |-> 0],
          ciphertext |-> NULL]
    ELSE LET k == kdfCK(state.CKs)
             header == [dh |-> state.DHs.publicKey, pn |-> state.PN, n |-> state.Ns]
             keys == deriveMessageKeys(k.messageKey)
         IN  [ok |-> TRUE,
              state |-> [state EXCEPT !.Ns = state.Ns + 1],
              header |-> header,
              ciphertext |->
                  encryptAES256GCM(plaintext, keys.encKey, serializeHeader(header))]

\* A ratchetEncrypt that numbers every message of the chain alike.
ratchetEncryptSameNumber(state, plaintext) ==
    IF state.CKs = NULL
    THEN [ok |-> FALSE, state |-> state, header |-> [dh |-> 0, pn |-> 0, n |-> 0],
          ciphertext |-> NULL]
    ELSE LET k == kdfCK(state.CKs)
             header == [dh |-> state.DHs.publicKey, pn |-> state.PN, n |-> state.Ns]
             keys == deriveMessageKeys(k.messageKey)
         IN  [ok |-> TRUE,
              state |-> [state EXCEPT !.CKs = k.nextChainKey],
              header |-> header,
              ciphertext |->
                  encryptAES256GCM(plaintext, keys.encKey, serializeHeader(header))]

\* ratchetEncrypt: kdfCK(null) throws a TypeError when there is no sending chain.
ratchetEncrypt(state, plaintext) ==
    IF state.CKs = NULL
    THEN [ok |-> FALSE, state |-> state, header |-> [dh |-> 0, pn |-> 0, n |-> 0],
          ciphertext |-> NULL]
    ELSE LET k == kdfCK(state.CKs)
             header == [dh |-> state.DHs.publicKey, pn |-> state.PN, n |-> state.Ns]
             keys == deriveMessageKeys(k.messageKey)
         IN  [ok |-> TRUE,
              state |-> [state EXCEPT !.CKs = k.nextChainKey, !.Ns = state.Ns + 1],
              header |-> header,
              ciphertext |->
                  encryptAES256GCM(plaintext, keys.encKey, serializeHeader(header))]

\* _decrypt
Decrypt(messageKey, ciphertext, header) ==
    decryptAES256GCM(ciphertext, deriveMessageKeys(messageKey).encKey,
                     serializeHeader(header))

\* A dhRatchetStep that stops at the root key of the receiving chain.
dhRatchetStepOneRootKey(state, header, newDHs) ==
    LET dhOut1 == dh(state.DHs.privateKey, header.dh)
        k1 == kdfRK(state.RK, dhOut1)
        dhOut2 == dh(newDHs.privateKey, header.dh)
        k2 == kdfRK(k1.newRootKey, dhOut2)
    IN  [state EXCEPT !.DHs = newDHs, !.DHr = header.dh, !.RK = k1.newRootKey,
                      !.CKs = k2.newChainKey, !.CKr = k1.newChainKey,
                      !.Ns = 0, !.Nr = 0, !.PN = state.Ns]

\* A dhRatchetStep that leaves PN as it was.
dhRatchetStepSamePN(state, header, newDHs) ==
    LET dhOut1 == dh(state.DHs.privateKey, header.dh)
        k1 == kdfRK(state.RK, dhOut1)
        dhOut2 == dh(newDHs.privateKey, header.dh)
        k2 == kdfRK(k1.newRootKey, dhOut2)
    IN  [state EXCEPT !.DHs = newDHs, !.DHr = header.dh, !.RK = k2.newRootKey,
                      !.CKs = k2.newChainKey, !.CKr = k1.newChainKey,
                      !.Ns = 0, !.Nr = 0]

dhRatchetStep(state, header, newDHs) ==
    LET dhOut1 == dh(state.DHs.privateKey, header.dh)
        k1 == kdfRK(state.RK, dhOut1)
        dhOut2 == dh(newDHs.privateKey, header.dh)
        k2 == kdfRK(k1.newRootKey, dhOut2)
    IN  [state EXCEPT !.DHs = newDHs, !.DHr = header.dh, !.RK = k2.newRootKey,
                      !.CKs = k2.newChainKey, !.CKr = k1.newChainKey,
                      !.Ns = 0, !.Nr = 0, !.PN = state.Ns]

\* A cache insertion that never evicts.
newSkippedUnbounded(map, mapKey, messageKey) == MapSet(map, mapKey, messageKey)

\* newSkipped in skipMessageKeys: set the key, then drop the first key of the
\* Map when its size is over MAX_CACHED_KEYS.
newSkipped(map, mapKey, messageKey) ==
    LET set == MapSet(map, mapKey, messageKey)
    IN  IF Len(set) > MAX_CACHED_KEYS THEN Tail(set) ELSE set

\* The while loop of skipMessageKeys.
RECURSIVE SkipLoop(_, _)
SkipLoop(state, until) ==
    IF state.Nr < until /\ state.CKr # NULL
    THEN LET k == kdfCK(state.CKr)
         IN  SkipLoop([state EXCEPT
                          !.CKr = k.nextChainKey, !.Nr = state.Nr + 1,
                          !.MKSKIPPED = newSkipped(state.MKSKIPPED,
                                                   MapKey(state.DHr, state.Nr),
                                                   k.messageKey)], until)
    ELSE state

\* A skipMessageKeys without the MAX_SKIP check.
skipMessageKeysUnchecked(state, until) ==
    [ok |-> TRUE, state |-> SkipLoop(state, until)]

skipMessageKeys(state, until) ==
    IF until - state.Nr > MAX_SKIP
    THEN [ok |-> FALSE, state |-> state]
    ELSE [ok |-> TRUE, state |-> SkipLoop(state, until)]

\* A trySkippedMessageKey that leaves the key it used in the cache.
trySkippedMessageKeyKept(state, header) ==
    LET mapKey == MapKey(header.dh, header.n)
    IN  IF MapHas(state.MKSKIPPED, mapKey)
        THEN [found |-> TRUE, messageKey |-> MapGet(state.MKSKIPPED, mapKey),
              state |-> state]
        ELSE [found |-> FALSE, messageKey |-> NULL, state |-> state]

trySkippedMessageKey(state, header) ==
    LET mapKey == MapKey(header.dh, header.n)
    IN  IF MapHas(state.MKSKIPPED, mapKey)
        THEN [found |-> TRUE, messageKey |-> MapGet(state.MKSKIPPED, mapKey),
              state |-> [state EXCEPT !.MKSKIPPED = MapDelete(@, mapKey)]]
        ELSE [found |-> FALSE, messageKey |-> NULL, state |-> state]

Failure(state, error) ==
    [ok |-> FALSE, error |-> error, state |-> state, plaintext |-> NoPlaintext]

\* ratchetDecrypt after the skipped-key lookup found nothing; newDHs is the pair
\* generateKeyPair() returns if the DH ratchet step runs.
RatchetDecryptChain(state, header, ciphertext, newDHs) ==
    LET turn == header.dh # state.DHr
        s1 == IF turn THEN skipMessageKeys(state, header.pn)
                      ELSE [ok |-> TRUE, state |-> state]
        st1 == IF turn /\ s1.ok THEN dhRatchetStep(s1.state, header, newDHs)
                                ELSE s1.state
        s2 == IF s1.ok THEN skipMessageKeys(st1, header.n) ELSE s1
    IN  IF ~s1.ok \/ ~s2.ok THEN Failure(state, "skip")
        ELSE IF s2.state.CKr = NULL THEN Failure(state, "type")
        ELSE LET k == kdfCK(s2.state.CKr)
                 newState == [s2.state EXCEPT !.CKr = k.nextChainKey,
                                              !.Nr = s2.state.Nr + 1]
                 opened == Decrypt(k.messageKey, ciphertext, header)
             IN  IF opened.ok
                 THEN [ok |-> TRUE, error |-> "none", state |-> newState,
                       plaintext |-> opened.plaintext]
                 ELSE Failure(state, "auth")

\* ratchetDecrypt: a thrown error leaves the caller with the state it passed in.
ratchetDecrypt(state, header, ciphertext, newDHs) ==
    LET skippedKey == trySkippedMessageKey(state, header)
    IN  IF skippedKey.found
        THEN LET opened == Decrypt(skippedKey.messageKey, ciphertext, header)
             IN  IF opened.ok
                 THEN [ok |-> TRUE, error |-> "none", state |-> skippedKey.state,
                       plaintext |-> opened.plaintext]
                 ELSE Failure(state, "auth")
        ELSE RatchetDecryptChain(state, header, ciphertext, newDHs)

\* serializeRatchetState: the JSON object written to the secure store.
serializeRatchetState(state) ==
    [DHs_pub |-> state.DHs.publicKey, DHs_priv |-> state.DHs.privateKey,
     DHr |-> state.DHr, RK |-> state.RK, CKs |-> state.CKs, CKr |-> state.CKr,
     Ns |-> state.Ns, Nr |-> state.Nr, PN |-> state.PN,
     MKSKIPPED |-> [i \in 1..Len(state.MKSKIPPED) |->
                      <<state.MKSKIPPED[i].k, state.MKSKIPPED[i].mk>>]]

\* deserializeRatchetState
deserializeRatchetState(data) ==
    [DHs |-> [publicKey |-> data.DHs_pub, privateKey |-> data.DHs_priv],
     DHr |-> data.DHr, RK |-> data.RK, CKs |-> data.CKs, CKr |-> data.CKr,
     Ns |-> data.Ns, Nr |-> data.Nr, PN |-> data.PN,
     MKSKIPPED |-> [i \in 1..Len(data.MKSKIPPED) |->
                      [k |-> data.MKSKIPPED[i][1], mk |-> data.MKSKIPPED[i][2]]]]

\* ------------------------------------------------------------------ X3DH.js

X3DH_INFO == "WhisperText"
X3DH_F == [ff |-> 32]

\* Steps 3-5 of x3dhSender: DH1..DH4, the master secret and the associated data.
x3dhSenderKeys(aliceIdentityKeyPair, bobBundle, ephemeralKeyPair) ==
    LET dh1 == dh(aliceIdentityKeyPair.privateKey, bobBundle.signedPreKey.publicKey)
        dh2 == dh(ephemeralKeyPair.privateKey, bobBundle.identityKey)
        dh3 == dh(ephemeralKeyPair.privateKey, bobBundle.signedPreKey.publicKey)
        base == <<X3DH_F, dh1, dh2, dh3>>
        dhMaterial ==
            IF bobBundle.oneTimePreKey.keyId # 0
            THEN concat(Append(base, dh(ephemeralKeyPair.privateKey,
                                        bobBundle.oneTimePreKey.publicKey)))
            ELSE concat(base)
    IN  [ok |-> TRUE,
         masterSecret |-> hkdf(dhMaterial, ZERO32, X3DH_INFO, 32),
         associatedData |-> concat(<<aliceIdentityKeyPair.publicKey,
                                     bobBundle.identityKey>>),
         initialMessage |->
             [ephemeralPublicKey |-> ephemeralKeyPair.publicKey,
              signedPreKeyId |-> bobBundle.signedPreKey.keyId,
              oneTimePreKeyId |-> bobBundle.oneTimePreKey.keyId]]

\* x3dhSender: the signed pre-key signature is verified under bundle.identityKey.
x3dhSender(aliceIdentityKeyPair, bobBundle, ephemeralKeyPair) ==
    IF ~verify(bobBundle.signedPreKey.publicKey, bobBundle.signedPreKey.signature,
               bobBundle.identityKey)
    THEN [ok |-> FALSE, masterSecret |-> NULL, associatedData |-> NULL,
          initialMessage |-> [ephemeralPublicKey |-> 0, signedPreKeyId |-> 0,
                              oneTimePreKeyId |-> 0]]
    ELSE x3dhSenderKeys(aliceIdentityKeyPair, bobBundle, ephemeralKeyPair)

\* x3dhReceiver without the DH4 of the one-time pre-key.
x3dhReceiverWithoutOPK(bobIdentityKeyPair, bobSignedPreKeyPair, bobOneTimePreKeyPair, initialMessage) ==
    LET dh1 == dh(bobSignedPreKeyPair.privateKey, initialMessage.senderIdentityKey)
        dh2 == dh(bobIdentityKeyPair.privateKey, initialMessage.ephemeralPublicKey)
        dh3 == dh(bobSignedPreKeyPair.privateKey, initialMessage.ephemeralPublicKey)
    IN  [masterSecret |-> hkdf(concat(<<X3DH_F, dh1, dh2, dh3>>), ZERO32, X3DH_INFO, 32),
         associatedData |-> concat(<<initialMessage.senderIdentityKey,
                                     bobIdentityKeyPair.publicKey>>)]

\* x3dhReceiver; bobOneTimePreKeyPair is KeyPair(0) for null.
x3dhReceiver(bobIdentityKeyPair, bobSignedPreKeyPair, bobOneTimePreKeyPair, initialMessage) ==
    LET dh1 == dh(bobSignedPreKeyPair.privateKey, initialMessage.senderIdentityKey)
        dh2 == dh(bobIdentityKeyPair.privateKey, initialMessage.ephemeralPublicKey)
        dh3 == dh(bobSignedPreKeyPair.privateKey, initialMessage.ephemeralPublicKey)
        base == <<X3DH_F, dh1, dh2, dh3>>
        dhMaterial ==
            IF bobOneTimePreKeyPair.privateKey # 0
            THEN concat(Append(base, dh(bobOneTimePreKeyPair.privateKey,
                                        initialMessage.ephemeralPublicKey)))
            ELSE concat(base)
    IN  [masterSecret |-> hkdf(dhMaterial, ZERO32, X3DH_INFO, 32),
         associatedData |-> concat(<<initialMessage.senderIdentityKey,
                                     bobIdentityKeyPair.publicKey>>)]

\* serializeX3DHHeader: `oneTimePreKeyId || null`
serializeX3DHHeader(initialMessage, senderIdentityKey) ==
    [sender_identity_key |-> senderIdentityKey,
     ephemeral_public_key |-> initialMessage.ephemeralPublicKey,
     signed_pre_key_id |-> initialMessage.signedPreKeyId,
     one_time_pre_key_id |-> initialMessage.oneTimePreKeyId]

\* deserializeX3DHHeader
deserializeX3DHHeader(header) ==
    [senderIdentityKey |-> header.sender_identity_key,
     ephemeralPublicKey |-> header.ephemeral_public_key,
     signedPreKeyId |-> header.signed_pre_key_id,
     oneTimePreKeyId |-> header.one_time_pre_key_id]


\* ------------------------------------------------- X3DH as a pair of functions

KeyNumbers == 1..MaxKey

\* The initiator's identity and ephemeral pairs, and the responder's identity,
\* signed pre-key and one-time pre-key (0: the bundle carries none).
XInit ==
    /\ peer \in [ik : KeyNumbers, ek : KeyNumbers, bik : KeyNumbers,
                 spk : KeyNumbers, opk : {0} \cup KeyNumbers]
    /\ done = {}
    /\ rs = NULL /\ net = {} /\ sent = NULL /\ evicted = NULL /\ nextKey = 0
    /\ inbox = NULL /\ errs = {}
    /\ store = NULL /\ cache = 0 /\ heap = <<>> /\ tasks = <<>> /\ calls = 0
    /\ now = 0

\* The responder's bundle, its signed pre-key signed by the key the bundle
\* gives as identityKey.
XBundle ==
    [identityKey |-> peer.bik,
     signedPreKey |-> [keyId |-> peer.spk, publicKey |-> peer.spk,
                       signature |-> sign(peer.spk, peer.bik)],
     oneTimePreKey |-> [keyId |-> peer.opk, publicKey |-> peer.opk]]

\* The initiator runs x3dhSender.
XSender ==
    /\ done = {}
    /\ done' = {[kind |-> "sender",
                 result |-> x3dhSender(KeyPair(peer.ik), XBundle, KeyPair(peer.ek))]}
    /\ UNCHANGED <<peer, rs, net, sent, evicted, nextKey, inbox, errs,
                   store, cache, heap, tasks, calls, now>>

\* The responder runs x3dhReceiver on the initial message as it arrives in the
\* X3DH header, with the signed pre-key pair spk and the one-time pre-key pair opk.
XReceiver(spk, opk) ==
    /\ \E s \in done : s.kind = "sender" /\ s.result.ok
    /\ \A r \in done : r.kind # "receiver"
    /\ LET s == CHOOSE e \in done : e.kind = "sender"
           header == deserializeX3DHHeader(
                        serializeX3DHHeader(s.result.initialMessage, peer.ik))
       IN  done' = done \cup
              {[kind |-> "receiver", spk |-> spk, opk |-> opk,
                result |-> x3dhReceiver(KeyPair(peer.bik), KeyPair(spk),
                                        KeyPair(opk), header)]}
    /\ UNCHANGED <<peer, rs, net, sent, evicted, nextKey, inbox, errs,
                   store, cache, heap, tasks, calls, now>>

XNext ==
    \/ XSender
    \/ \E spk \in KeyNumbers, opk \in {0} \cup KeyNumbers : XReceiver(spk, opk)

SpecX3DH == XInit /\ [][XNext]_vars

\* C13: with the private halves of the keys the initiator used, x3dhReceiver
\* returns the master secret and the associated data x3dhSender returned; with
\* another signed pre-key or one-time pre-key the master secrets differ.
X3DHAgreement ==
    \A s, r \in done :
        (s.kind = "sender" /\ r.kind = "receiver") =>
            IF r.spk = peer.spk /\ r.opk = peer.opk
            THEN /\ r.result.masterSecret = s.result.masterSecret
                 /\ r.result.associatedData = s.result.associatedData
                 /\ r.result.associatedData = concat(<<peer.ik, peer.bik>>)
            ELSE r.result.masterSecret # s.result.masterSecret

X3DHAgreementWitness ==
    \E r \in done : r.kind = "receiver" /\ r.opk # 0 /\ r.opk = peer.opk
                      /\ r.spk = peer.spk

\* ---------------------------------------------- the ratchet-level specification

\* The key pairs that exist before the first message: identity keys, Bob's
\* signed pre-key and one-time pre-key, Alice's X3DH ephemeral key and her first
\* ratchet pair; fresh is the first number generateKeyPair() hands out later.
K == [aliceIK |-> 1, bobIK |-> 2, bobSPK |-> 3, bobOPK |-> 4, aliceEK |-> 5,
      aliceDH |-> 6, bobSign |-> 7, aliceSign |-> 8, aliceSPK |-> 9, aliceOPK |-> 10,
      fresh |-> 11]

sessionVars == <<store, cache, heap, tasks, peer, done, calls, now>>
ratchetVars == <<rs, sent, evicted, inbox, errs, now>>

Sides == {"alice", "bob"}
Other(side) == IF side = "alice" THEN "bob" ELSE "alice"

\* Bob's bundle as Alice's x3dhSender takes it, with or without a one-time pre-key.
RatchetBundle(opk) ==
    [identityKey |-> K.bobIK,
     signedPreKey |-> [keyId |-> 1, publicKey |-> K.bobSPK, signature |-> NULL],
     oneTimePreKey |-> [keyId |-> opk, publicKey |-> opk]]

\* The two ratchet states of one session: both ends derive the master secret
\* (x3dhSenderKeys at Alice, x3dhReceiver at Bob) and initialise from it.
RatchetPair(opk) ==
    LET a == x3dhSenderKeys(KeyPair(K.aliceIK), RatchetBundle(opk), KeyPair(K.aliceEK))
        b == x3dhReceiver(KeyPair(K.bobIK), KeyPair(K.bobSPK), KeyPair(opk),
                          [senderIdentityKey |-> K.aliceIK,
                           ephemeralPublicKey |-> K.aliceEK])
    IN  [alice |-> initializeSender(a.masterSecret, K.bobSPK, KeyPair(K.aliceDH)),
         bob |-> initializeReceiver(b.masterSecret, KeyPair(K.bobSPK))]

RInit ==
    /\ rs = RatchetPair(K.bobOPK)
    /\ net = {}
    /\ sent = [s \in Sides |-> 0]
    /\ evicted = [s \in Sides |-> FALSE]
    /\ nextKey = K.fresh
    /\ inbox = [s \in Sides |-> {}]
    /\ errs = {}
    /\ store = NULL /\ cache = 0 /\ heap = <<>> /\ tasks = <<>>
    /\ peer = NULL /\ done = {} /\ calls = 0 /\ now = 0

\* What the caller of ratchetDecrypt keeps: SessionManager.decryptMessage assigns
\* session.ratchetState only after ratchetDecrypt returned.
Committed(state, result) == IF result.ok THEN result.state ELSE state

\* The largest advance a ratchetDecrypt of header asks skipMessageKeys for.
Gap(state, header) ==
    IF MapHas(state.MKSKIPPED, MapKey(header.dh, header.n)) THEN 0
    ELSE IF header.dh # state.DHr
         THEN IF header.pn - state.Nr > header.n THEN header.pn - state.Nr
              ELSE header.n
         ELSE header.n - state.Nr

\* The sequence numbers side has decrypted.
Decrypted(box, side) == {e.seq : e \in box[side]}

\* The messages still in flight to side that it has jumped over: it decrypted a
\* later message of the same sender.
JumpedOver(network, box, side) ==
    {m \in network : /\ m.from = Other(side)
                     /\ \E later \in Decrypted(box, side) : later > m.seq}

\* side encrypts plaintext with ratchetEncrypt and hands the message to the network.
REncrypt(side, plaintext) ==
    /\ sent["alice"] + sent["bob"] < MaxSent
    /\ LET r == ratchetEncrypt(rs[side], plaintext)
           m == [from |-> side, seq |-> sent[side] + 1, header |-> r.header,
                 ciphertext |-> r.ciphertext, plaintext |-> plaintext]
       IN  /\ r.ok
           /\ rs' = [rs EXCEPT ![side] = r.state]
           /\ net' = net \cup {m}
           /\ sent' = [sent EXCEPT ![side] = @ + 1]
    /\ UNCHANGED <<evicted, nextKey, inbox, errs, sessionVars>>

\* The receiver runs ratchetDecrypt on ciphertext under m's header.
Receive(m, ciphertext, altered) ==
    LET to == Other(m.from)
        r == ratchetDecrypt(rs[to], m.header, ciphertext, KeyPair(nextKey))
        after == Committed(rs[to], r)
    IN  /\ rs' = [rs EXCEPT ![to] = after]
        /\ net' = IF r.ok THEN net \ {m} ELSE net
        /\ nextKey' = IF after.DHs # rs[to].DHs THEN nextKey + 1 ELSE nextKey
        /\ inbox' = IF r.ok
                    THEN [inbox EXCEPT ![to] = @ \cup
                            {[seq |-> m.seq, exact |-> r.plaintext = m.plaintext,
                              altered |-> altered]}]
                    ELSE inbox
        /\ evicted' = [evicted EXCEPT ![to] =
                          @ \/ Cardinality(JumpedOver(net', inbox', to)) > MAX_CACHED_KEYS]
        /\ errs' = IF r.ok \/ altered THEN errs
                   ELSE errs \cup {[from |-> m.from, seq |-> m.seq, error |-> r.error,
                                    gap |-> Gap(rs[to], m.header),
                                    inorder |-> Decrypted(inbox, to) = 1..(m.seq - 1),
                                    evicted |-> evicted[to]]}

\* The network delivers a message, in any order.
RDeliver(m) ==
    /\ m \in net
    /\ Receive(m, m.ciphertext, FALSE)
    /\ UNCHANGED <<sent, sessionVars>>

\* The network delivers a copy of a message with its ciphertext body altered.
RTamper(m) ==
    /\ m \in net
    /\ Receive(m, Altered(m.ciphertext), TRUE)
    /\ UNCHANGED <<sent, sessionVars>>

\* side's state is written with serializeRatchetState and read back with
\* deserializeRatchetState (SessionManager._saveSession / loadSession).
RSaveLoad(side) ==
    /\ rs' = [rs EXCEPT ![side] = deserializeRatchetState(serializeRatchetState(@))]
    /\ UNCHANGED <<net, sent, evicted, nextKey, inbox, errs, sessionVars>>

RNext ==
    \/ \E side \in Sides, plaintext \in Plaintexts : REncrypt(side, plaintext)
    \/ \E m \in net : RDeliver(m)
    \/ \E m \in net : RTamper(m)
    \/ \E side \in Sides : RSaveLoad(side)

SpecRatchet == RInit /\ [][RNext]_vars

\* ------------------------------------------------ properties of the ratchet

MapKeys(map) == {map[i].k : i \in 1..Len(map)}

IsPrefix(a, b) == Len(a) <= Len(b) /\ a = SubSeq(b, 1, Len(a))
IsSuffix(a, b) == Len(a) <= Len(b) /\ a = SubSeq(b, Len(b) - Len(a) + 1, Len(b))

\* The decryptions at side that failed.
Failed(side) == {e \in errs : e.from = Other(side)}

\* No delivery to side had to advance the chain by more than MAX_SKIP.
GapsWithin(side) == \A e \in Failed(side) : e.gap <= MAX_SKIP

\* Every unaltered message side decrypted gave the plaintext its sender encrypted.
Exact(side) == \A e \in inbox[side] : ~e.altered => e.exact

\* side's cache holds one key for each message it jumped over that is still in
\* flight, and nothing else.
CacheIsJumped(side) ==
    LET jumped == JumpedOver(net, inbox, side)
    IN  /\ MapKeys(rs[side].MKSKIPPED) =
              {MapKey(m.header.dh, m.header.n) : m \in jumped}
        /\ Len(rs[side].MKSKIPPED) = Cardinality(jumped)

\* C2: a message encrypted by one side and delivered to the other once all
\* earlier messages of its sender were decrypted there never fails, and every
\* message that decrypts yields exactly the plaintext that was encrypted.
RoundTrip ==
    /\ \A side \in Sides : Exact(side)
    /\ \A e \in errs : ~e.inorder

\* Both sides have decrypted in-order messages, the initiator's second after a
\* DH ratchet step of the responder's reply.
RoundTripWitness ==
    /\ errs = {}
    /\ Decrypted(inbox, "bob") = {1, 2}
    /\ Decrypted(inbox, "alice") = {1}
    /\ rs["bob"].PN = 1
    /\ \A side \in Sides : \A e \in inbox[side] : e.exact

\* C4 as stated: in every delivery order in which no gap exceeds MAX_SKIP no
\* decryption fails, every plaintext is the one encrypted, and the cache holds
\* exactly one key per message jumped over and not delivered yet (so it is
\* empty when all are delivered).
OutOfOrderWithinMaxSkip ==
    \A side \in Sides :
        GapsWithin(side) =>
            /\ Failed(side) = {}
            /\ Exact(side)
            /\ CacheIsJumped(side)

\* C4 amended: the same, for delivery orders in which moreover the receiver
\* never has more than MAX_CACHED_KEYS jumped-over messages outstanding.
OutOfOrderWithinCache ==
    \A side \in Sides :
        (GapsWithin(side) /\ ~evicted[side]) =>
            /\ Failed(side) = {}
            /\ Exact(side)
            /\ CacheIsJumped(side)

\* Of three messages the third was delivered first: two keys are cached.
OutOfOrderWitness ==
    /\ sent["alice"] = 3
    /\ Decrypted(inbox, "bob") = {3}
    /\ Len(rs["bob"].MKSKIPPED) = 2
    /\ errs = {}

\* C6 as stated: the receiver given only the last of MAX_SKIP+1 messages of one
\* chain does not decrypt it, and its state stays what it was.
LargeGapOfMaxSkipPlusOne ==
    /\ Decrypted(inbox, "bob") # {MAX_SKIP + 1}
    /\ inbox["bob"] = {} => rs["bob"] = RatchetPair(K.bobOPK).bob

\* C6 amended: the receiver given only the last of MAX_SKIP+2 messages of one
\* chain (numbers 0..MAX_SKIP+1) does not decrypt it, every advance of more
\* than MAX_SKIP fails with the too-many-skipped error, and failed decryptions
\* leave the state what it was.
LargeGapOfMaxSkipPlusTwo ==
    /\ \A seq \in Decrypted(inbox, "bob") :
           Decrypted(inbox, "bob") = {seq} => seq <= MAX_SKIP + 1
    /\ \A e \in errs : e.gap > MAX_SKIP => e.error = "skip"
    /\ inbox["bob"] = {} => rs["bob"] = RatchetPair(K.bobOPK).bob

\* The last of MAX_SKIP+2 messages was refused before anything was decrypted.
LargeGapWitness ==
    /\ inbox["bob"] = {}
    /\ \E e \in errs : /\ e.from = "alice" /\ e.seq = MAX_SKIP + 2
                       /\ e.gap = MAX_SKIP + 1 /\ e.error = "skip"

\* One step of a cache from old to new is first-in first-out: the entries that
\* stay keep their order and come before the new ones; when entries were added,
\* the ones dropped are the earliest and the cache is full; when none was
\* added, at most the one key that was used is gone.
FifoStep(old, new) ==
    LET kept == SelectSeq(old, LAMBDA e : MapHas(new, e.k))
    IN  /\ IsPrefix(kept, new)
        /\ IF Len(new) > Len(kept)
           THEN /\ IsSuffix(kept, old)
                /\ Len(kept) < Len(old) => Len(new) = MAX_CACHED_KEYS
           ELSE Len(old) - Len(kept) <= 1

\* The jumped-over messages whose key side's cache no longer holds were all
\* sent, and so inserted, before the ones whose key it holds.
EvictedEarliest(side) ==
    LET jumped == JumpedOver(net, inbox, side)
        held == {m \in jumped :
                    MapHas(rs[side].MKSKIPPED, MapKey(m.header.dh, m.header.n))}
    IN  /\ MapKeys(rs[side].MKSKIPPED) \subseteq
              {MapKey(m.header.dh, m.header.n) : m \in jumped}
        /\ \A gone \in jumped \ held : \A m \in held : gone.seq < m.seq

\* C7: the skipped-key cache never holds more than MAX_CACHED_KEYS entries, and
\* evicts first-in first-out: the keys gone are the earliest, and every step
\* keeps the order of the rest.
CacheBounded ==
    /\ [](\A side \in Sides : /\ Len(rs[side].MKSKIPPED) <= MAX_CACHED_KEYS
                              /\ EvictedEarliest(side))
    /\ [][\A side \in Sides :
             FifoStep(rs[side].MKSKIPPED, rs'[side].MKSKIPPED)]_vars

\* A full cache after an insertion that evicted.
CacheBoundedWitness ==
    \E side \in Sides :
        /\ evicted[side]
        /\ Len(rs[side].MKSKIPPED) = MAX_CACHED_KEYS


\* ------------------------------------------- ratchet level: headers in transit

\* The headers that differ from header in one field: the payload's header
\* travels next to the ciphertext, as payload.header.
OtherHeaders(header) ==
    {[header EXCEPT !.pn = @ + 1], [header EXCEPT !.n = @ + 1],
     [header EXCEPT !.dh = @ + 1]}
        \cup (IF header.pn > 0 THEN {[header EXCEPT !.pn = @ - 1]} ELSE {})
        \cup (IF header.n > 0 THEN {[header EXCEPT !.n = @ - 1]} ELSE {})

\* The field in which two headers differ.
Differs(h1, h2) ==
    IF h1.dh # h2.dh THEN "dh" ELSE IF h1.pn # h2.pn THEN "pn" ELSE "n"

\* The network delivers m's ciphertext under another header: the receiver runs
\* ratchetDecrypt with it.
RReheader(m, header) ==
    /\ m \in net
    /\ header \in OtherHeaders(m.header)
    /\ LET to == Other(m.from)
           r == ratchetDecrypt(rs[to], header, m.ciphertext, KeyPair(nextKey))
           after == Committed(rs[to], r)
       IN  /\ rs' = [rs EXCEPT ![to] = after]
           /\ nextKey' = IF after.DHs # rs[to].DHs THEN nextKey + 1 ELSE nextKey
           /\ done' = done \cup
                {[kind |-> "header", field |-> Differs(header, m.header),
                  ok |-> r.ok, unchanged |-> after = rs[to]]}
    /\ UNCHANGED <<net, sent, evicted, inbox, errs, store, cache, heap, tasks,
                   peer, calls, now>>

\* Traffic as in SpecRatchet, up to the first delivery under another header.
HNext ==
    \/ \E side \in Sides, plaintext \in Plaintexts :
          done = {} /\ REncrypt(side, plaintext)
    \/ \E m \in net : done = {} /\ RDeliver(m)
    \/ \E m \in net : \E header \in OtherHeaders(m.header) :
          done = {} /\ RReheader(m, header)

SpecHeader == RInit /\ [][HNext]_vars

\* C12: a ciphertext delivered under a header that differs in dh, pn or n from
\* the header it was encrypted under is not decrypted, and the receiver's state
\* stays what it was.
HeaderBinding ==
    \A d \in done : d.kind = "header" => (~d.ok /\ d.unchanged)

\* ------------------------------------------------------------ KeyManager.js

\* _generateAllKeys: the identity is two pairs, an X25519 pair for DH and an
\* Ed25519 pair for signatures.
IdentityKeyPair(dhNumber, signNumber) ==
    [dh |-> KeyPair(dhNumber), sign |-> KeyPair(signNumber)]

\* generateSignedPreKey: the public key signed with the identity signing key.
generateSignedPreKey(identityKeyPair, pair) ==
    [keyId |-> pair.publicKey, publicKey |-> pair.publicKey,
     privateKey |-> pair.privateKey,
     signature |-> sign(pair.publicKey, identityKeyPair.sign.privateKey)]

\* generateOneTimePreKeys
generateOneTimePreKeys(numbers) ==
    [i \in 1..Len(numbers) |->
        [keyId |-> numbers[i], publicKey |-> numbers[i], privateKey |-> numbers[i]]]

\* An absent one_time_pre_key / oneTimePreKey.
NoPreKey == [key_id |-> 0, public_key |-> 0]

\* buildPublicKeyBundle: the one-time pre-keys go out as the list
\* one_time_pre_keys; the bundle has no one_time_pre_key.
buildPublicKeyBundle(identityKeyPair, spk, oneTimePreKeys) ==
    [identity_key |-> identityKeyPair.dh.publicKey,
     identity_signing_key |-> identityKeyPair.sign.publicKey,
     signed_pre_key |-> [key_id |-> spk.keyId, public_key |-> spk.publicKey,
                         signature |-> spk.signature],
     one_time_pre_keys |-> [i \in 1..Len(oneTimePreKeys) |->
                              [key_id |-> oneTimePreKeys[i].keyId,
                               public_key |-> oneTimePreKeys[i].publicKey]],
     one_time_pre_key |-> NoPreKey]

\* keyService.js fetchUserKeyBundle: the server returns the bundle with one of
\* its one-time pre-keys.
fetchUserKeyBundle(published) ==
    [published EXCEPT !.one_time_pre_key =
        IF Len(published.one_time_pre_keys) > 0 THEN published.one_time_pre_keys[1]
        ELSE NoPreKey]

\* The keys of the device (Bob) and of the remote user (Alice).
Local == IdentityKeyPair(K.bobIK, K.bobSign)
LocalSPK == generateSignedPreKey(Local, KeyPair(K.bobSPK))
LocalOPKs == generateOneTimePreKeys(<<K.bobOPK>>)
Remote == IdentityKeyPair(K.aliceIK, K.aliceSign)
RemoteSPK == generateSignedPreKey(Remote, KeyPair(K.aliceSPK))
RemoteOPKs == generateOneTimePreKeys(<<K.aliceOPK>>)

\* The bundle the remote user's KeyManager publishes, as the server returns it.
PublishedBundle ==
    fetchUserKeyBundle(buildPublicKeyBundle(Remote, RemoteSPK, RemoteOPKs))

\* A bundle whose identity_key is the key the signed pre-key was signed with.
SigningKeyBundle ==
    [PublishedBundle EXCEPT !.identity_key = Remote.sign.publicKey]

\* The bundles a send may be given, by name.
Bundles == [published |-> PublishedBundle, signing |-> SigningKeyBundle]

\* ---------------------------------------------------------- SessionManager.js

Tasks == {1, 2}

NoX3DH ==
    [sender_identity_key |-> 0, ephemeral_public_key |-> 0,
     signed_pre_key_id |-> 0, one_time_pre_key_id |-> 0]

NoHeader == [dh |-> 0, pn |-> 0, n |-> 0]

\* createOutboundSession: "Parse remote key bundle"
parseBundle(recipientKeyBundle) ==
    [identityKey |-> recipientKeyBundle.identity_key,
     signedPreKey |-> [keyId |-> recipientKeyBundle.signed_pre_key.key_id,
                       publicKey |-> recipientKeyBundle.signed_pre_key.public_key,
                       signature |-> recipientKeyBundle.signed_pre_key.signature],
     oneTimePreKey |-> [keyId |-> recipientKeyBundle.one_time_pre_key.key_id,
                        publicKey |-> recipientKeyBundle.one_time_pre_key.public_key]]

\* _saveSession: the serializable copy that is written to the store.
serializeSession(session) ==
    [session EXCEPT !.ratchetState = serializeRatchetState(@)]

\* loadSession: the session object parsed from the stored JSON.
parseSession(raw) ==
    [raw EXCEPT !.ratchetState = deserializeRatchetState(@)]

\* hasSession
hasSession == cache # 0 \/ store.session # NULL

\* The wire payload encryptMessage builds.
Payload(isInitialMessage, header, ciphertext, x3dhHeader) ==
    [type |-> IF isInitialMessage THEN "initial" ELSE "message",
     header |-> header, ciphertext |-> ciphertext,
     x3dh_header |-> IF isInitialMessage THEN x3dhHeader ELSE NoX3DH]

\* The ratchet state of the session with the remote user, persisted and in memory.
SessionView(st, ca, he) ==
    [persisted |-> IF st.session = NULL THEN NULL ELSE st.session.ratchetState,
     memory |-> IF ca # 0 THEN serializeRatchetState(he[ca].ratchetState)
                ELSE IF st.session = NULL THEN NULL ELSE st.session.ratchetState]

IdleTask ==
    [pc |-> "idle", kind |-> "none", call |-> 0, seq |-> 0, payload |-> NULL,
     plaintext |-> NoPlaintext, altered |-> FALSE, bundle |-> "none",
     session |-> 0, raw |-> NULL, localSPK |-> NULL, data |-> NULL,
     localOPK |-> KeyPair(0), ids |-> <<>>, then |-> "finish",
     created |-> FALSE, hadSession |-> FALSE, alone |-> TRUE, fresh |-> TRUE,
     replay |-> FALSE, reply |-> FALSE, signal |-> FALSE, stored |-> 0,
     before |-> NULL, pool |-> NULL, result |-> NULL]

Busy(t) == tasks[t].pc # "idle"

Quiescent == \A t \in Tasks : ~Busy(t)

SInit ==
    /\ store = [session |-> NULL, spk |-> LocalSPK, opks |-> {LocalOPKs[1]},
                opkIds |-> <<LocalOPKs[1].keyId>>, failed |-> 0]
    /\ cache = 0
    /\ heap = <<>>
    /\ tasks = [t \in Tasks |-> IdleTask]
    /\ peer = [rs |-> NULL, sent |-> 0]
    /\ net = {}
    /\ done = {}
    /\ calls = 0
    /\ nextKey = K.fresh
    /\ rs = NULL /\ sent = NULL /\ evicted = NULL /\ inbox = NULL /\ errs = {}
    /\ now = 0

\* The texts of the remote user's messages: consecutive messages differ, so
\* that a plaintext returned for the wrong message shows.
PeerText(seq) == IF seq % 2 = 1 THEN "hello" ELSE "world"

\* The text the user of the device sends.
SendTexts == {"hello"}

\* The remote user sends: a client that took the device's bundle with its
\* one-time pre-key and ran X3DH past the signature check, then encryptMessage.
PeerSend(plaintext) ==
    /\ peer.sent < MaxPeerSent
    /\ plaintext = PeerText(peer.sent + 1)
    /\ LET bundle == [identityKey |-> Local.dh.publicKey,
                      signedPreKey |-> [keyId |-> LocalSPK.keyId,
                                        publicKey |-> LocalSPK.publicKey,
                                        signature |-> LocalSPK.signature],
                      oneTimePreKey |-> [keyId |-> LocalOPKs[1].keyId,
                                         publicKey |-> LocalOPKs[1].publicKey]]
           x3dhResult == x3dhSenderKeys(Remote.dh, bundle, KeyPair(K.aliceEK))
           first == peer.rs = NULL
           state == IF first
                    THEN initializeSender(x3dhResult.masterSecret,
                                          bundle.signedPreKey.publicKey,
                                          KeyPair(K.aliceDH))
                    ELSE peer.rs
           r == ratchetEncrypt(state, plaintext)
       IN  /\ peer' = [rs |-> r.state, sent |-> peer.sent + 1]
           /\ net' = net \cup
                {[seq |-> peer.sent + 1, plaintext |-> plaintext,
                  payload |-> Payload(first, r.header, r.ciphertext,
                                      serializeX3DHHeader(x3dhResult.initialMessage,
                                                          Remote.dh.publicKey))]}
    /\ UNCHANGED <<store, cache, heap, tasks, done, calls, nextKey, ratchetVars>>

\* The remote user receives the device's initial payload: a client whose
\* identity key is the key of the bundle the device used runs x3dhReceiver and
\* initializeReceiver as createInboundSession does, and ratchetDecrypt. What it
\* sends from then on is sent on that session.
PeerAccept(d) ==
    /\ peer.rs = NULL
    /\ d.kind = "encrypt" /\ d.ok
    /\ d.type = "initial" /\ d.x3dh_header # NoX3DH
    /\ LET header == deserializeX3DHHeader(d.x3dh_header)
           remoteSPK == [publicKey |-> RemoteSPK.publicKey,
                         privateKey |-> RemoteSPK.privateKey]
           remoteOPK == IF header.oneTimePreKeyId = RemoteOPKs[1].keyId
                        THEN [publicKey |-> RemoteOPKs[1].publicKey,
                              privateKey |-> RemoteOPKs[1].privateKey]
                        ELSE KeyPair(0)
           x3dhResult == x3dhReceiver(KeyPair(Bundles[d.bundle].identity_key),
                                      remoteSPK, remoteOPK, header)
           r == ratchetDecrypt(initializeReceiver(x3dhResult.masterSecret, remoteSPK),
                               d.header,
                               [key |-> d.key, pt |-> NoPlaintext, intact |-> TRUE],
                               KeyPair(K.aliceDH))
       IN  /\ r.ok
           /\ peer' = [peer EXCEPT !.rs = r.state]
    /\ UNCHANGED <<store, cache, heap, tasks, net, done, calls, nextKey, ratchetVars>>

\* The one-time pre-keys in the store and their id list.
KeyPool(st) == [opks |-> st.opks, opkIds |-> st.opkIds]

\* A call starts in task t: the tasks that are running are no longer alone.
Begin(t, task) ==
    /\ ~Busy(t)
    /\ calls < MaxCalls
    /\ t = 1 \/ Busy(1)
    /\ calls' = calls + 1
    /\ tasks' = [u \in Tasks |->
                   IF u = t
                   THEN [task EXCEPT !.call = calls + 1,
                                     !.alone = \A v \in Tasks \ {t} : ~Busy(v),
                                     !.before = SessionView(store, cache, heap),
                                     !.pool = KeyPool(store)]
                   ELSE IF Busy(u) THEN [tasks[u] EXCEPT !.alone = FALSE]
                   ELSE tasks[u]]

\* The seq numbers of the messages a decryptMessage call was started for.
Started == {tasks[t].seq : t \in {u \in Tasks : tasks[u].kind = "decrypt"}}
               \cup {d.seq : d \in {e \in done : e.kind = "decrypt"}}

\* The seq numbers of the messages decryptMessage has returned the plaintext of.
Processed == {d.seq : d \in {e \in done : e.kind = "decrypt" /\ e.ok}}

\* SecureStorage hands every getItem, setItem and removeItem to the native
\* store when it is called, and the store serves them in that order: an
\* operation reads or writes the store in the step that calls it, and the
\* caller goes on, after its await, in a later step.

\* loadSession up to its await: the cached object, or getItem of the stored JSON.
loadSession(task) ==
    [task EXCEPT !.pc = "resume", !.session = cache,
                 !.raw = IF cache # 0 THEN NULL ELSE store.session]

\* rootSaga.js watchWebSocket forks handleIncomingMessage, which calls
\* decryptMessage(sender, payload); the network may deliver a payload again,
\* or with its ciphertext body altered.
StartDecrypt(t, m, altered) ==
    /\ m \in net
    /\ Begin(t, loadSession([IdleTask EXCEPT
                    !.kind = "decrypt", !.seq = m.seq,
                    !.payload = IF altered
                                THEN [m.payload EXCEPT !.ciphertext = Altered(@)]
                                ELSE m.payload,
                    !.plaintext = m.plaintext, !.altered = altered,
                    !.fresh = m.seq \notin Started,
                    !.replay = m.seq \in Processed]))
    /\ UNCHANGED <<store, cache, heap, peer, net, done, nextKey, ratchetVars>>

\* A payload arrives whose type is neither 'initial' nor 'message'.
StartDecryptUnknownType(t, m) ==
    /\ m \in net
    /\ Begin(t, loadSession([IdleTask EXCEPT
                    !.kind = "decrypt", !.seq = m.seq,
                    !.payload = [m.payload EXCEPT !.type = "receipt"],
                    !.plaintext = m.plaintext, !.altered = TRUE,
                    !.fresh = m.seq \notin Started,
                    !.replay = m.seq \in Processed]))
    /\ UNCHANGED <<store, cache, heap, peer, net, done, nextKey, ratchetVars>>

\* rootSaga.js handleSendMessage up to its first call that leaves the device:
\* with a session, encryptMessage(recipient, plaintext, null) up to the await of
\* loadSession; without one, the request of fetchUserKeyBundle, which the
\* server answers with bundle.
StartEncrypt(t, plaintext, bundle) ==
    /\ bundle = "none" <=> hasSession
    /\ LET task == [IdleTask EXCEPT
                    !.kind = "encrypt", !.plaintext = plaintext,
                    !.bundle = bundle,
                    !.reply = \E d \in done : d.kind = "decrypt" /\ d.ok /\ d.initial]
       IN  Begin(t, IF bundle = "none" THEN loadSession(task)
                    ELSE [task EXCEPT !.pc = "fetchUserKeyBundle"])
    /\ UNCHANGED <<store, cache, heap, peer, net, done, nextKey, ratchetVars>>

\* handleSendMessage with the bundle: verifyRemoteIdentityKey up to the await
\* of its loadSession.
handleSendMessage(t) ==
    /\ tasks[t].pc = "fetchUserKeyBundle"
    /\ tasks' = [tasks EXCEPT ![t] = [loadSession(@) EXCEPT
                                         !.pc = "verifyRemoteIdentityKey"]]
    /\ UNCHANGED <<store, cache, heap, peer, net, done, calls, nextKey, ratchetVars>>

\* loadSession after its await: a session read from the store is parsed into a
\* new object and put in the cache.
Parsed(t) == tasks[t].session = 0 /\ tasks[t].raw # NULL
HeapLoaded(t) == IF Parsed(t) THEN Append(heap, parseSession(tasks[t].raw)) ELSE heap
SessionLoaded(t) == IF Parsed(t) THEN Len(heap) + 1 ELSE tasks[t].session
CacheLoaded(t) == IF Parsed(t) THEN Len(heap) + 1 ELSE cache

\* verifyRemoteIdentityKey after its loadSession, and handleSendMessage on its
\* result: without a session, or with the stored key equal to the key of the
\* bundle, changed is false and encryptMessage is called; else changed is
\* true, setIdentityKeyChanged is put, and deleteAllSessions takes the session
\* out of the cache and calls removeItem, which keeps a failure to itself.
verifyRemoteIdentityKey(t, fails) ==
    /\ tasks[t].pc = "verifyRemoteIdentityKey"
    /\ fails => store.failed < MaxFailed
    /\ LET session == SessionLoaded(t)
           loaded == HeapLoaded(t)
           newIdentityKey == Bundles[tasks[t].bundle].identity_key
       IN  IF session = 0
           THEN /\ tasks' = [tasks EXCEPT ![t] = loadSession(@)]
                /\ UNCHANGED <<store, cache, heap>>
           ELSE IF loaded[session].remoteIdentityKey = newIdentityKey
           THEN /\ heap' = loaded
                /\ cache' = CacheLoaded(t)
                /\ tasks' = [tasks EXCEPT ![t] =
                                [@ EXCEPT !.pc = "resume", !.session = cache', !.raw = NULL,
                                          !.stored = loaded[session].remoteIdentityKey]]
                /\ UNCHANGED store
           ELSE /\ heap' = loaded
                /\ cache' = 0
                /\ store' = IF fails THEN [store EXCEPT !.failed = @ + 1]
                             ELSE [store EXCEPT !.session = NULL]
                /\ tasks' = [tasks EXCEPT ![t] =
                                [@ EXCEPT !.pc = "deleteAllSessions", !.signal = TRUE,
                                          !.stored = loaded[session].remoteIdentityKey]]
    /\ UNCHANGED <<peer, net, done, calls, nextKey, ratchetVars>>

\* deleteAllSessions after its removeItem: handleSendMessage calls
\* encryptMessage, up to the await of loadSession.
deleteAllSessions(t) ==
    /\ tasks[t].pc = "deleteAllSessions"
    /\ tasks' = [tasks EXCEPT ![t] = loadSession(@)]
    /\ UNCHANGED <<store, cache, heap, peer, net, done, calls, nextKey, ratchetVars>>

\* The call in task t returns or throws.
Finish(t, ok, error, result, hadSession) ==
    /\ done' = done \cup
         {[call |-> tasks[t].call, kind |-> tasks[t].kind, ok |-> ok,
           error |-> error, seq |-> tasks[t].seq, altered |-> tasks[t].altered,
           alone |-> tasks[t].alone, fresh |-> tasks[t].fresh,
           initial |-> IF tasks[t].kind = "decrypt"
                       THEN tasks[t].payload.type = "initial"
                       ELSE tasks[t].created,
           hadSession |-> hadSession, created |-> tasks[t].created,
           gotOPK |-> tasks[t].localOPK # KeyPair(0),
           bundle |-> tasks[t].bundle,
           exact |-> IF tasks[t].kind = "decrypt" /\ ok
                     THEN result = tasks[t].plaintext ELSE FALSE,
           unchanged |-> SessionView(store', cache', heap') = tasks[t].before,
           replay |-> tasks[t].replay, reply |-> tasks[t].reply,
           signal |-> tasks[t].signal,
           observed |-> IF tasks[t].kind = "encrypt"
                        THEN IF tasks[t].bundle = "none" THEN 0
                             ELSE Bundles[tasks[t].bundle].identity_key
                        ELSE IF tasks[t].payload.type = "initial"
                        THEN tasks[t].payload.x3dh_header.sender_identity_key
                        ELSE 0,
           stored |-> IF tasks[t].kind = "encrypt" THEN tasks[t].stored
                      ELSE IF SessionLoaded(t) = 0 \/ tasks[t].created THEN 0
                      ELSE HeapLoaded(t)[SessionLoaded(t)].remoteIdentityKey,
           type |-> IF tasks[t].kind = "encrypt"
                    THEN IF ok THEN result.type ELSE "none"
                    ELSE tasks[t].payload.type,
           poolUnchanged |-> KeyPool(store') = tasks[t].pool,
           x3dh_header |-> IF tasks[t].kind = "encrypt" /\ ok
                           THEN result.x3dh_header ELSE NoX3DH,
           outbound |-> IF store'.session = NULL THEN FALSE
                        ELSE store'.session.isOutbound,
           persisted |-> IF cache' = 0 THEN TRUE
                         ELSE store'.session = serializeSession(heap'[cache']),
           pending |-> IF store'.session = NULL THEN FALSE
                       ELSE store'.session.x3dhHeader # NoX3DH,
           header |-> IF tasks[t].kind = "encrypt" /\ ok THEN result.header
                      ELSE NoHeader,
           key |-> IF tasks[t].kind = "encrypt" /\ ok THEN result.ciphertext.key
                   ELSE NULL]}
    /\ tasks' = [tasks EXCEPT ![t] = IdleTask]

\* decryptMessage from the return of loadSession to its next await: without a
\* session, createInboundSession up to getSignedPreKey's getItem for an initial
\* payload and the throw for any other; with a session, ratchetDecrypt and,
\* when it succeeded, _saveSession up to its setItem.
decryptMessage(t, fails) ==
    /\ tasks[t].pc = "resume"
    /\ tasks[t].kind = "decrypt"
    /\ fails => store.failed < MaxFailed
    /\ LET session == SessionLoaded(t)
           loaded == HeapLoaded(t)
           payload == tasks[t].payload
           r == ratchetDecrypt(loaded[session].ratchetState, payload.header,
                               payload.ciphertext, KeyPair(nextKey))
       IN  IF session = 0
           THEN /\ UNCHANGED <<store, cache, heap, nextKey>>
                /\ IF payload.type = "initial" /\ ~tasks[t].created
                   THEN /\ tasks' = [tasks EXCEPT
                                        ![t].pc = "getSignedPreKey",
                                        ![t].localSPK =
                                            IF store.spk.keyId =
                                                 payload.x3dh_header.signed_pre_key_id
                                            THEN store.spk ELSE NULL]
                        /\ UNCHANGED done
                   ELSE Finish(t, FALSE, "nosession", NoPlaintext, FALSE)
           ELSE IF r.ok
           THEN /\ heap' = [loaded EXCEPT ![session].ratchetState = r.state]
                /\ cache' = session
                /\ store' = IF fails THEN [store EXCEPT !.failed = @ + 1]
                             ELSE [store EXCEPT !.session = serializeSession(heap'[session])]
                /\ nextKey' = IF r.state.DHs # loaded[session].ratchetState.DHs
                              THEN nextKey + 1 ELSE nextKey
                /\ tasks' = [tasks EXCEPT
                                ![t].pc = "saveSession", ![t].session = session,
                                ![t].hadSession = ~tasks[t].created,
                                ![t].then = IF fails THEN "throw" ELSE "finish",
                                ![t].result = r.plaintext]
                /\ UNCHANGED done
           ELSE /\ heap' = loaded
                /\ cache' = CacheLoaded(t)
                /\ UNCHANGED <<store, nextKey>>
                /\ Finish(t, FALSE, r.error, NoPlaintext, ~tasks[t].created)
    /\ UNCHANGED <<peer, net, calls, ratchetVars>>

\* encryptMessage from the return of loadSession to its next await: without a
\* session, the throw when there is no bundle, else createOutboundSession up to
\* x3dhSender; with a session, ratchetEncrypt and _saveSession up to its setItem.
encryptMessage(t, fails) ==
    /\ tasks[t].pc = "resume"
    /\ tasks[t].kind = "encrypt"
    /\ fails => store.failed < MaxFailed
    /\ LET session == SessionLoaded(t)
           loaded == HeapLoaded(t)
           r == ratchetEncrypt(loaded[session].ratchetState, tasks[t].plaintext)
       IN  IF session = 0
           THEN /\ UNCHANGED <<store, cache, heap>>
                /\ IF tasks[t].created
                   THEN Finish(t, FALSE, "type", NoPlaintext, FALSE)
                   ELSE IF tasks[t].bundle = "none"
                   THEN Finish(t, FALSE, "nobundle", NoPlaintext, FALSE)
                   ELSE /\ tasks' = [tasks EXCEPT ![t].pc = "x3dhSender"]
                        /\ UNCHANGED done
           ELSE IF r.ok
           THEN /\ heap' = [loaded EXCEPT ![session].ratchetState = r.state]
                /\ cache' = session
                /\ store' = IF fails THEN [store EXCEPT !.failed = @ + 1]
                             ELSE [store EXCEPT !.session = serializeSession(heap'[session])]
                /\ tasks' = [tasks EXCEPT
                                ![t].pc = "saveSession", ![t].session = session,
                                ![t].hadSession = ~tasks[t].created,
                                ![t].then = IF fails THEN "throw" ELSE "finish",
                                ![t].result =
                                    Payload(tasks[t].created, r.header, r.ciphertext,
                                            loaded[session].x3dhHeader)]
                /\ UNCHANGED done
           ELSE /\ heap' = loaded
                /\ cache' = CacheLoaded(t)
                /\ UNCHANGED store
                /\ Finish(t, FALSE, "type", NoPlaintext, ~tasks[t].created)
    /\ UNCHANGED <<peer, net, calls, nextKey, ratchetVars>>

\* getSignedPreKey after its getItem: not found throws; else createInboundSession
\* goes on to consumeOneTimePreKey and its getItem when the payload names a
\* one-time pre-key, and to x3dhReceiver when it names none.
getSignedPreKey(t) ==
    /\ tasks[t].pc = "getSignedPreKey"
    /\ UNCHANGED <<store, cache, heap>>
    /\ LET keyId == tasks[t].payload.x3dh_header.one_time_pre_key_id
           found == {k \in store.opks : k.keyId = keyId}
       IN  IF tasks[t].localSPK = NULL
           THEN Finish(t, FALSE, "spk", NoPlaintext, FALSE)
           ELSE /\ tasks' = [tasks EXCEPT
                                ![t].pc = IF keyId # 0 THEN "consumeOneTimePreKey"
                                          ELSE "x3dhReceiver",
                                ![t].data = IF keyId # 0 /\ found # {}
                                            THEN CHOOSE k \in found : TRUE
                                            ELSE NULL]
                /\ UNCHANGED done
    /\ UNCHANGED <<peer, net, calls, nextKey, ratchetVars>>

\* consumeOneTimePreKey after its getItem: not found throws; else removeItem.
consumeOneTimePreKey(t) ==
    /\ tasks[t].pc = "consumeOneTimePreKey"
    /\ UNCHANGED <<cache, heap>>
    /\ IF tasks[t].data = NULL
       THEN /\ UNCHANGED store
            /\ Finish(t, FALSE, "opk", NoPlaintext, FALSE)
       ELSE /\ store' = [store EXCEPT
                            !.opks = {k \in @ : k.keyId # tasks[t].data.keyId}]
            /\ tasks' = [tasks EXCEPT ![t].pc = "removeItem"]
            /\ UNCHANGED done
    /\ UNCHANGED <<peer, net, calls, nextKey, ratchetVars>>

\* consumeOneTimePreKey after removeItem: getItem of the id list.
consumeRemoved(t) ==
    /\ tasks[t].pc = "removeItem"
    /\ tasks' = [tasks EXCEPT ![t].pc = "existingIdsRaw", ![t].ids = store.opkIds]
    /\ UNCHANGED <<store, cache, heap, peer, net, done, calls, nextKey, ratchetVars>>

\* consumeOneTimePreKey after getItem of the id list: setItem of the list
\* without the id.
consumeIds(t) ==
    /\ tasks[t].pc = "existingIdsRaw"
    /\ store' = [store EXCEPT !.opkIds =
                    SelectSeq(tasks[t].ids, LAMBDA id : id # tasks[t].data.keyId)]
    /\ tasks' = [tasks EXCEPT ![t].pc = "setItem"]
    /\ UNCHANGED <<cache, heap, peer, net, done, calls, nextKey, ratchetVars>>

\* consumeOneTimePreKey after setItem of the id list: the key pair is returned
\* and createInboundSession goes on to x3dhReceiver.
consumeReturn(t) ==
    /\ tasks[t].pc = "setItem"
    /\ tasks' = [tasks EXCEPT
                    ![t].pc = "x3dhReceiver",
                    ![t].localOPK = [publicKey |-> tasks[t].data.publicKey,
                                     privateKey |-> tasks[t].data.privateKey]]
    /\ UNCHANGED <<store, cache, heap, peer, net, done, calls, nextKey, ratchetVars>>

\* createInboundSession from x3dhReceiver on: initializeReceiver, and
\* _saveSession up to its setItem.
createInboundSession(t) ==
    /\ tasks[t].pc = "x3dhReceiver"
    /\ LET header == deserializeX3DHHeader(tasks[t].payload.x3dh_header)
           localSPK == [publicKey |-> tasks[t].localSPK.publicKey,
                        privateKey |-> tasks[t].localSPK.privateKey]
           x3dhResult == x3dhReceiver(Local.dh, localSPK, tasks[t].localOPK, header)
           session == [userId |-> "alice",
                       ratchetState |-> initializeReceiver(x3dhResult.masterSecret,
                                                           localSPK),
                       remoteIdentityKey |-> header.senderIdentityKey,
                       x3dhHeader |-> NoX3DH, isOutbound |-> FALSE]
       IN  /\ heap' = Append(heap, session)
           /\ cache' = Len(heap) + 1
           /\ store' = [store EXCEPT !.session = serializeSession(session)]
           /\ tasks' = [tasks EXCEPT ![t].pc = "saveSession", ![t].then = "load",
                                     ![t].created = TRUE]
    /\ UNCHANGED <<peer, net, done, calls, nextKey, ratchetVars>>

\* createOutboundSession from x3dhSender on: a failed signature check throws;
\* else initializeSender, and _saveSession up to its setItem.
createOutboundSession(t) ==
    /\ tasks[t].pc = "x3dhSender"
    /\ LET bundle == parseBundle(Bundles[tasks[t].bundle])
           x3dhResult == x3dhSender(Local.dh, bundle, KeyPair(nextKey))
           session == [userId |-> "alice",
                       ratchetState |-> initializeSender(x3dhResult.masterSecret,
                                                         bundle.signedPreKey.publicKey,
                                                         KeyPair(nextKey + 1)),
                       remoteIdentityKey |-> bundle.identityKey,
                       x3dhHeader |-> serializeX3DHHeader(x3dhResult.initialMessage,
                                                          Local.dh.publicKey),
                       isOutbound |-> TRUE]
       IN  IF x3dhResult.ok
           THEN /\ heap' = Append(heap, session)
                /\ cache' = Len(heap) + 1
                /\ store' = [store EXCEPT !.session = serializeSession(session)]
                /\ nextKey' = nextKey + 2
                /\ tasks' = [tasks EXCEPT ![t].pc = "saveSession", ![t].then = "load",
                                          ![t].created = TRUE]
                /\ UNCHANGED done
           ELSE /\ UNCHANGED <<store, cache, heap, nextKey>>
                /\ Finish(t, FALSE, "signature", NoPlaintext, FALSE)
    /\ UNCHANGED <<peer, net, calls, ratchetVars>>

\* _saveSession after its setItem: the call returns, or, when it has just
\* created the session, goes on to loadSession; a setItem that was rejected
\* throws out of _saveSession and of the call.
saveSession(t) ==
    /\ tasks[t].pc = "saveSession"
    /\ UNCHANGED <<store, cache, heap>>
    /\ IF tasks[t].then = "load"
       THEN /\ tasks' = [tasks EXCEPT ![t] = loadSession([@ EXCEPT !.then = "finish"])]
            /\ UNCHANGED done
       ELSE IF tasks[t].then = "throw"
       THEN Finish(t, FALSE, "storage", NoPlaintext, tasks[t].hadSession)
       ELSE Finish(t, TRUE, "none", tasks[t].result, tasks[t].hadSession)
    /\ UNCHANGED <<peer, net, calls, nextKey, ratchetVars>>

\* The app is closed and opened again: the SessionManager starts with an empty
\* cache, the store is what it was.
Restart ==
    /\ Quiescent
    /\ cache # 0
    /\ cache' = 0
    /\ heap' = <<>>
    /\ UNCHANGED <<store, tasks, peer, net, done, calls, nextKey, ratchetVars>>

SNext ==
    \/ \E plaintext \in Plaintexts : PeerSend(plaintext)
    \/ \E d \in done : PeerAccept(d)
    \/ \E t \in Tasks, m \in net, altered \in BOOLEAN : StartDecrypt(t, m, altered)
    \/ \E t \in Tasks, plaintext \in SendTexts, bundle \in {"none"} \cup DOMAIN Bundles :
          StartEncrypt(t, plaintext, bundle)
    \/ \E t \in Tasks : handleSendMessage(t)
    \/ \E t \in Tasks, fails \in BOOLEAN : verifyRemoteIdentityKey(t, fails)
    \/ \E t \in Tasks : deleteAllSessions(t)
    \/ \E t \in Tasks, fails \in BOOLEAN : decryptMessage(t, fails)
    \/ \E t \in Tasks, fails \in BOOLEAN : encryptMessage(t, fails)
    \/ \E t \in Tasks : getSignedPreKey(t)
    \/ \E t \in Tasks : consumeOneTimePreKey(t)
    \/ \E t \in Tasks : consumeRemoved(t)
    \/ \E t \in Tasks : consumeIds(t)
    \/ \E t \in Tasks : consumeReturn(t)
    \/ \E t \in Tasks : createInboundSession(t)
    \/ \E t \in Tasks : createOutboundSession(t)
    \/ \E t \in Tasks : saveSession(t)
    \/ Restart

SpecSession == SInit /\ [][SNext]_vars

\* The same device, when payloads of an unknown wire type arrive too.
MNext ==
    \/ SNext
    \/ \E t \in Tasks, m \in net : StartDecryptUnknownType(t, m)

SpecMisuse == SInit /\ [][MNext]_vars

\* ------------------------------------------ KeyManager.js: the one-time pre-keys

\* An id no generateOneTimePreKeys call of the device has produced.
UnknownKeyId == K.aliceOPK

KIdle ==
    [pc |-> "idle", kind |-> "none", call |-> 0, keyId |-> 0, data |-> NULL,
     ids |-> <<>>, allIds |-> <<>>, count |-> 0, late |-> FALSE, alone |-> TRUE,
     before |-> NULL]

\* The one-time pre-key records and the id list of the store.
PoolView(st) == [opks |-> st.opks, opkIds |-> st.opkIds]

KInit ==
    /\ store = [session |-> NULL, spk |-> LocalSPK, opks |-> {LocalOPKs[1]},
                opkIds |-> <<LocalOPKs[1].keyId>>, failed |-> 0]
    /\ tasks = [t \in Tasks |-> KIdle]
    /\ done = {}
    /\ calls = 0
    /\ nextKey = K.fresh
    /\ cache = 0 /\ heap = <<>> /\ peer = NULL /\ net = {}
    /\ rs = NULL /\ sent = NULL /\ evicted = NULL /\ inbox = NULL /\ errs = {}
    /\ now = 0

\* A KeyManager call starts in task t.
KBegin(t, task) ==
    /\ ~Busy(t)
    /\ calls < MaxKeyCalls
    /\ t = 1 \/ Busy(1)
    /\ calls' = calls + 1
    /\ tasks' = [u \in Tasks |->
                   IF u = t
                   THEN [task EXCEPT !.call = calls + 1,
                                     !.alone = \A v \in Tasks \ {t} : ~Busy(v),
                                     !.before = PoolView(store)]
                   ELSE IF Busy(u) THEN [tasks[u] EXCEPT !.alone = FALSE]
                   ELSE tasks[u]]

\* The call in task t returns (ok) or throws.
KFinish(t, ok) ==
    /\ done' = done \cup
         {[call |-> tasks[t].call, kind |-> tasks[t].kind, ok |-> ok,
           keyId |-> tasks[t].keyId, late |-> tasks[t].late,
           alone |-> tasks[t].alone,
           unchanged |-> PoolView(store') = tasks[t].before]}
    /\ tasks' = [tasks EXCEPT ![t] = KIdle]

\* The ids consumeOneTimePreKey has returned a key pair for.
Consumed == {d.keyId : d \in {e \in done : e.kind = "consume" /\ e.ok}}

\* consumeOneTimePreKey(keyId) up to its getItem.
KConsume(t, keyId) ==
    /\ LET found == {k \in store.opks : k.keyId = keyId}
       IN  KBegin(t, [KIdle EXCEPT
                        !.pc = "consumeOneTimePreKey", !.kind = "consume",
                        !.keyId = keyId, !.late = keyId \in Consumed,
                        !.data = IF found # {} THEN CHOOSE k \in found : TRUE
                                 ELSE NULL])
    /\ UNCHANGED <<store, done, nextKey, cache, heap, peer, net, ratchetVars>>

\* consumeOneTimePreKey after its getItem: not found throws; else removeItem,
\* whose failure SecureStorage.removeItem logs and does not pass on.
KConsumeFound(t, fails) ==
    /\ tasks[t].pc = "consumeOneTimePreKey"
    /\ IF tasks[t].data = NULL
       THEN /\ ~fails
            /\ UNCHANGED store
            /\ KFinish(t, FALSE)
       ELSE /\ fails => store.failed < MaxFailed
            /\ store' = IF fails
                        THEN [store EXCEPT !.failed = @ + 1]
                        ELSE [store EXCEPT
                                !.opks = {k \in @ : k.keyId # tasks[t].keyId}]
            /\ tasks' = [tasks EXCEPT ![t].pc = "removeItem"]
            /\ UNCHANGED done
    /\ UNCHANGED <<calls, nextKey, cache, heap, peer, net, ratchetVars>>

\* consumeOneTimePreKey after removeItem: getItem of the id list.
KConsumeRemoved(t) ==
    /\ tasks[t].pc = "removeItem"
    /\ tasks' = [tasks EXCEPT ![t].pc = "existingIdsRaw", ![t].ids = store.opkIds]
    /\ UNCHANGED <<store, done, calls, nextKey, cache, heap, peer, net, ratchetVars>>

\* consumeOneTimePreKey after getItem of the id list: setItem of the list
\* without keyId.
KConsumeIds(t) ==
    /\ tasks[t].pc = "existingIdsRaw"
    /\ store' = [store EXCEPT !.opkIds =
                    SelectSeq(tasks[t].ids, LAMBDA id : id # tasks[t].keyId)]
    /\ tasks' = [tasks EXCEPT ![t].pc = "setItem"]
    /\ UNCHANGED <<done, calls, nextKey, cache, heap, peer, net, ratchetVars>>

\* consumeOneTimePreKey returns the key pair.
KConsumeReturn(t) ==
    /\ tasks[t].pc = "setItem"
    /\ UNCHANGED <<store, calls, nextKey, cache, heap, peer, net, ratchetVars>>
    /\ KFinish(t, TRUE)

\* PreKeyManager.checkAndRefillPreKeys, which returns at once while another
\* refill is running (_checkingRefill), calls generateOneTimePreKeys(count):
\* here up to its getItem of the id list.
KGenerate(t, count) ==
    /\ \A u \in Tasks : tasks[u].kind # "generate"
    /\ KBegin(t, [KIdle EXCEPT !.pc = "generateOneTimePreKeys", !.kind = "generate",
                               !.count = count, !.allIds = store.opkIds])
    /\ UNCHANGED <<store, done, nextKey, cache, heap, peer, net, ratchetVars>>

\* One pass of the loop of generateOneTimePreKeys: a new pair, setItem of its
\* record; after the last pass, setItem of the id list.
KGenerateKey(t) ==
    /\ tasks[t].pc = "generateOneTimePreKeys"
    /\ IF tasks[t].count > 0
       THEN /\ store' = [store EXCEPT !.opks =
                            @ \cup {generateOneTimePreKeys(<<nextKey>>)[1]}]
            /\ nextKey' = nextKey + 1
            /\ tasks' = [tasks EXCEPT ![t].count = @ - 1,
                                      ![t].allIds = Append(@, nextKey)]
       ELSE /\ store' = [store EXCEPT !.opkIds = tasks[t].allIds]
            /\ tasks' = [tasks EXCEPT ![t].pc = "newKeys"]
            /\ UNCHANGED nextKey
    /\ UNCHANGED <<done, calls, cache, heap, peer, net, ratchetVars>>

\* generateOneTimePreKeys returns the new public keys.
KGenerateReturn(t) ==
    /\ tasks[t].pc = "newKeys"
    /\ UNCHANGED <<store, calls, nextKey, cache, heap, peer, net, ratchetVars>>
    /\ KFinish(t, TRUE)

KNext ==
    \/ \E t \in Tasks, keyId \in {LocalOPKs[1].keyId, UnknownKeyId, K.fresh} :
          KConsume(t, keyId)
    \/ \E t \in Tasks, fails \in BOOLEAN : KConsumeFound(t, fails)
    \/ \E t \in Tasks : KConsumeRemoved(t)
    \/ \E t \in Tasks : KConsumeIds(t)
    \/ \E t \in Tasks : KConsumeReturn(t)
    \/ \E t \in Tasks, count \in 1..MaxBatch : KGenerate(t, count)
    \/ \E t \in Tasks : KGenerateKey(t)
    \/ \E t \in Tasks : KGenerateReturn(t)

SpecKeys == KInit /\ [][KNext]_vars

\* The ids in the id list.
Listed == {store.opkIds[i] : i \in 1..Len(store.opkIds)}

\* C18: once consumeOneTimePreKey(id) has returned a pair, a later
\* consumeOneTimePreKey(id) fails, also when a removal failed in the store, and
\* with no generateOneTimePreKeys call about the id is not in the id list; for
\* an id never generated the call fails and changes nothing.
SingleUse ==
    /\ \A d \in done : (d.kind = "consume" /\ d.late) => ~d.ok
    /\ (Quiescent /\ \A d \in done : d.kind = "consume")
          => Consumed \cap Listed = {}
    /\ \A d \in done :
          (d.kind = "consume" /\ d.keyId = UnknownKeyId)
              => (~d.ok /\ (d.alone => d.unchanged))

\* C19: when no store operation failed and the calls are over, the id list
\* holds the ids of the stored one-time pre-keys and no others.
PoolConsistent ==
    (Quiescent /\ store.failed = 0)
        => Listed = {k.keyId : k \in store.opks}

\* --------------------------------------------- properties of the session layer

\* The calls that have returned a payload.
Produced == {d \in done : d.kind = "encrypt" /\ d.ok}

\* The calls consumeOneTimePreKey has returned the one-time pre-key pair to.
OpkHandedTo ==
    {tasks[t].call : t \in {u \in Tasks : tasks[u].localOPK # KeyPair(0)}}
        \cup {d.call : d \in {e \in done : e.gotOPK}}

\* Only decryptMessage calls were made, one at a time, each for an unaltered
\* payload that was not delivered before.
OnlyFirstDeliveries ==
    /\ \A d \in done : d.kind = "decrypt" /\ ~d.altered /\ d.alone /\ d.fresh
    /\ \A t \in Tasks : tasks[t].kind # "encrypt"

\* No decryptMessage call ran while another call was running.
DecryptsAlone ==
    /\ \A d \in done : d.kind = "decrypt" => d.alone
    /\ \A t \in Tasks : tasks[t].kind = "decrypt" => tasks[t].alone

\* C1: the first encryptMessage to a user without a session, given the bundle
\* that user's KeyManager publishes, passes the signature check of x3dhSender
\* and returns a payload tagged initial.
HappyPath ==
    \A d \in done :
        (d.kind = "encrypt" /\ d.bundle = "published" /\ ~d.hadSession /\ d.alone)
            => (d.ok /\ d.initial)

\* C3: a decryptMessage of a payload with an altered ciphertext body, which
\* unaltered would be decrypted (an initial payload, or one for a session that
\* exists), fails with the authentication error and leaves the session state,
\* in memory and persisted, what it was.
TamperResistance ==
    \A d \in done :
        (d.kind = "decrypt" /\ d.altered /\ d.alone /\ (d.initial \/ d.hadSession))
            => (~d.ok /\ d.error = "auth" /\ d.unchanged)

\* C5: the responder decrypts every message of the initiator, in whatever
\* order the messages arrive.
OutOfOrderAtSession ==
    OnlyFirstDeliveries => \A d \in done : d.ok /\ d.exact

\* C8: consumeOneTimePreKey returns the pair of a one-time pre-key to one call
\* at most.
ConsumedOnce == Cardinality(OpkHandedTo) <= 1

\* C9: after a decryptMessage that created an inbound session for an initial
\* payload and then failed in ratchetDecrypt, there is no session, persisted or
\* cached, and the one-time pre-key is in the pool.
RollbackOfFirstMessage ==
    \A d \in done :
        (calls = 1 /\ d.kind = "decrypt" /\ d.initial /\ d.created /\ ~d.ok)
            => /\ store.session = NULL
               /\ cache = 0
               /\ LocalOPKs[1] \in store.opks
               /\ store.opkIds = <<LocalOPKs[1].keyId>>

\* C10: whatever the interleaving of encryptMessage calls, no two payloads have
\* the same (dh, n) or the same message key, one session at most was created,
\* and once the calls are over the persisted Ns is the number of payloads.
SendsSerialized ==
    DecryptsAlone =>
        /\ \A d1, d2 \in Produced :
              d1.call # d2.call =>
                  /\ <<d1.header.dh, d1.header.n>> # <<d2.header.dh, d2.header.n>>
                  /\ d1.key # d2.key
        /\ Cardinality({d \in done : d.kind = "encrypt" /\ d.created}) <= 1
        /\ (Quiescent /\ Produced # {} /\ store.session # NULL)
              => store.session.ratchetState.Ns = Cardinality(Produced)

\* C14: a payload is tagged initial, and carries the X3DH header, exactly when
\* the encryptMessage call that returned it created the session; a send made
\* after an initial payload was decrypted is tagged message.
WireTypeTagging ==
    \A d \in Produced :
        /\ d.type = "initial" <=> d.created
        /\ d.x3dh_header # NoX3DH <=> d.created
        /\ d.reply => d.type = "message"

\* C16: an initial payload not handled before, arriving while a session with
\* the sender exists, is decrypted.
FreshX3DHOverSession ==
    \A d \in done :
        (d.kind = "decrypt" /\ d.initial /\ d.fresh /\ ~d.altered /\ d.alone
            /\ d.hadSession) => (d.ok /\ d.exact)

AtomicPersistence ==
    \A d \in done :
        (d.error = "storage" /\ d.alone) => (d.unchanged /\ d.persisted)
\* C15: once the initiator has decrypted a message of the peer, the stored
\* session no longer contains the pending X3DH header.
PendingHeaderCleared ==
    \A d \in done :
        (d.kind = "decrypt" /\ d.ok /\ d.outbound) => ~d.pending
\* C11: whenever the send flow or an inbound initial payload shows an identity
\* key for the peer that differs from the key stored for the peer, the
\* identity-change signal is raised.
IdentityChangeSignalled ==
    \A d \in done :
        (d.observed # 0 /\ d.stored # 0 /\ d.observed # d.stored) => d.signal
\* The calls so far are the deliveries of the peer's messages, unaltered and
\* started in the order the messages were sent, and no store write was rejected.
InArrivalOrder ==
    /\ \A d \in done : d.kind = "decrypt" /\ d.call = d.seq /\ ~d.altered
    /\ \A t \in Tasks : tasks[t].kind # "encrypt"
    /\ store.failed = 0

\* C21: inbound messages handled by forked handleIncomingMessage tasks give
\* what handling them one after the other in arrival order gives: every one
\* decrypts to its plaintext, and when all are handled the persisted receiving
\* chain has counted each of them.
ReceivesSerialized ==
    InArrivalOrder =>
        /\ \A d \in done : d.ok /\ d.exact
        /\ (Quiescent /\ Cardinality(done) = MaxPeerSent)
              => (store.session # NULL /\ store.session.ratchetState.Nr = MaxPeerSent)
\* C29: verifyRemoteIdentityKey records the key it is shown for a peer without
\* a session, so that a later verifyRemoteIdentityKey of the same peer with a
\* different key reports the change.
TrustOnFirstUse ==
    \A d1, d2 \in done :
        (/\ d1.kind = "encrypt" /\ d2.kind = "encrypt"
         /\ d1.alone /\ d2.alone /\ d1.call < d2.call
         /\ d1.observed # 0 /\ d2.observed # 0 /\ d1.observed # d2.observed
         /\ ~d1.signal)
            => d2.signal

\* ------------------------------------------- KeyManager.js: the device's keys

\* Logins and logouts of the device.
MaxLifeCalls == 3
\* The last instant of the device's clock.
MaxNow == 3
\* KeyManager.js:35 has 100 keys in a batch and KeyManager.js:37 has 30 days
\* between rotations; the model runs the same code with a batch of
\* OPK_BATCH_SIZE keys and SPK_ROTATION_DAYS instants of the clock.
OPK_BATCH_SIZE == 2
SPK_ROTATION_DAYS == 2

\* The secure store of a device that has never logged in.
EmptyKeyStore ==
    [ik |-> NULL, spks |-> {}, currentSpkId |-> 0, rotationTs |-> 0,
     opks |-> {}, opkIds |-> <<>>, failed |-> 0]

\* What the store holds, without the count of the operations it failed.
KeyView(st) == [st EXCEPT !.failed = 0]

\* SecureStorage.setItem: the value replaces what the key held.
setItem(st, w) ==
    CASE w.key = "signal_ik" -> [st EXCEPT !.ik = w.value]
      [] w.key = "signal_spk_" ->
            [st EXCEPT !.spks = {k \in @ : k.keyId # w.value.keyId} \cup {w.value}]
      [] w.key = "signal_current_spk_id" -> [st EXCEPT !.currentSpkId = w.value]
      [] w.key = "signal_spk_rotation_ts" -> [st EXCEPT !.rotationTs = w.value]
      [] w.key = "signal_opk_" ->
            [st EXCEPT !.opks = {k \in @ : k.keyId # w.value.keyId} \cup {w.value}]
      [] w.key = "signal_opk_ids" -> [st EXCEPT !.opkIds = w.value]

\* SecureStorage.removeItem
removeItem(st, w) ==
    CASE w.key = "signal_ik" -> [st EXCEPT !.ik = NULL]
      [] w.key = "signal_current_spk_id" -> [st EXCEPT !.currentSpkId = 0]
      [] w.key = "signal_spk_rotation_ts" -> [st EXCEPT !.rotationTs = 0]
      [] w.key = "signal_opk_" -> [st EXCEPT !.opks = {k \in @ : k.keyId # w.value}]
      [] w.key = "signal_opk_ids" -> [st EXCEPT !.opkIds = <<>>]

\* The store after the first n of the awaited setItem calls ws.
RECURSIVE setItems(_, _, _)
setItems(st, ws, n) ==
    IF n = 0 THEN st ELSE setItem(setItems(st, ws, n - 1), ws[n])

\* The store after the awaited removeItem calls ws, of which the one at
\* failAt (0: none) fails; removeItem swallows the failure.
RECURSIVE removeItems(_, _, _, _)
removeItems(st, ws, n, failAt) ==
    IF n = 0 THEN st
    ELSE LET before == removeItems(st, ws, n - 1, failAt)
         IN  IF n = failAt THEN before ELSE removeItem(before, ws[n])

\* A sequence of setItem calls of which the one at failAt (0: none) rejects:
\* the calls before it have taken effect, the calls after it are not made.
Written(ws, failAt) == IF failAt = 0 THEN Len(ws) ELSE failAt - 1

\* generateSignedPreKey: the id is Date.now(); the record, the current id and
\* the rotation timestamp are written in this order.
SignedPreKeyWrites(identityKeyPair, pair, spkId) ==
    << [key |-> "signal_spk_",
        value |-> [generateSignedPreKey(identityKeyPair, pair) EXCEPT !.keyId = spkId]],
       [key |-> "signal_current_spk_id", value |-> spkId],
       [key |-> "signal_spk_rotation_ts", value |-> spkId] >>

\* generateOneTimePreKeys(count): key i has the id Date.now() + i; each record
\* is written, then the id list read at the start with the new ids appended.
OneTimePreKeyWrites(existingIds, first, baseId, count) ==
    [i \in 1..count |->
        [key |-> "signal_opk_",
         value |-> [keyId |-> baseId + i - 1, publicKey |-> first + i - 1,
                    privateKey |-> first + i - 1]]]
    \o << [key |-> "signal_opk_ids",
           value |-> existingIds \o [i \in 1..count |-> baseId + i - 1]] >>

\* _generateAllKeys: the identity, then generateSignedPreKey(), then
\* generateOneTimePreKeys(OPK_BATCH_SIZE).
AllKeysWrites(st, first, at) ==
    LET identityKeyPair == IdentityKeyPair(first, first + 1)
    IN  << [key |-> "signal_ik", value |-> identityKeyPair] >>
        \o SignedPreKeyWrites(identityKeyPair, KeyPair(first + 2), at)
        \o OneTimePreKeyWrites(st.opkIds, first + 3, at, OPK_BATCH_SIZE)

\* The ids of the signed pre-key records among the writes ws[1..n].
SpkIdsOf(ws, n) == {ws[i].value.keyId : i \in {j \in 1..n : ws[j].key = "signal_spk_"}}
\* The ids of the one-time pre-key records among the writes ws[1..n].
OpkIdsOf(ws, n) == {ws[i].value.keyId : i \in {j \in 1..n : ws[j].key = "signal_opk_"}}

\* getSignedPreKey(keyId) on the store st: the records under that id.
StoredSignedPreKey(st, keyId) == {k \in st.spks : k.keyId = keyId}

\* The login flow is idle, or stands after its initialize() call.
LifeIdle == [pc |-> "idle", isNewDevice |-> FALSE, bundle |-> NULL]

\* The record of a finished call.
LifeDone(kind, ok, before, after, ws, n) ==
    [call |-> calls + 1, kind |-> kind, ok |-> ok, at |-> now,
     existed |-> before.ik # NULL,
     unchanged |-> KeyView(after) = KeyView(before),
     hadTs |-> before.rotationTs # 0,
     due |-> now - before.rotationTs >= SPK_ROTATION_DAYS,
     previousKept |-> StoredSignedPreKey(before, before.currentSpkId)
                         \subseteq after.spks,
     spkIds |-> SpkIdsOf(ws, n), opkIds |-> OpkIdsOf(ws, n),
     isNewDevice |-> FALSE, rotated |-> FALSE, bundle |-> NULL,
     after |-> KeyView(after), memory |-> cache]

LInit ==
    /\ store = EmptyKeyStore
    /\ cache = [identityKeyPair |-> NULL, initialized |-> FALSE]
    /\ tasks = LifeIdle
    /\ done = {}
    /\ calls = 0
    /\ nextKey = 1
    /\ now = 1
    /\ heap = <<>> /\ peer = NULL /\ net = {}
    /\ rs = NULL /\ sent = NULL /\ evicted = NULL /\ inbox = NULL /\ errs = {}

lifeParked == <<rs, net, sent, evicted, inbox, errs, heap, peer>>

\* Date.now() moves on.
Tick ==
    /\ now < MaxNow
    /\ now' = now + 1
    /\ UNCHANGED <<store, cache, tasks, done, calls, nextKey>>
    /\ UNCHANGED lifeParked

\* _generateAllKeys as initialize() runs it: the setItem at failAt (0: none)
\* rejects, initialize throws and the login fails.
generateAllKeys(failAt) ==
    LET ws == AllKeysWrites(store, nextKey, now)
        n == Written(ws, failAt)
    IN  /\ failAt \in 0..Len(ws)
        /\ failAt # 0 => store.failed < MaxFailed
        /\ nextKey' = nextKey + 3 + OPK_BATCH_SIZE
        /\ store' = [setItems(store, ws, n)
                        EXCEPT !.failed = IF failAt # 0 THEN @ + 1 ELSE @]
        /\ cache' = [identityKeyPair |-> IF n >= 1 THEN ws[1].value
                                         ELSE cache.identityKeyPair,
                     initialized |-> failAt = 0 \/ cache.initialized]
        /\ tasks' = IF failAt = 0
                    THEN [pc |-> "initialized", isNewDevice |-> TRUE, bundle |-> NULL]
                    ELSE LifeIdle
        /\ done' = done \cup
              {[LifeDone("initialize", failAt = 0, store, store', ws, n)
                   EXCEPT !.isNewDevice = failAt = 0]}

\* An initialize() that does not look for a stored identity.
initializeRegenerating(failAt) ==
    /\ tasks.pc = "idle"
    /\ calls < MaxLifeCalls
    /\ calls' = calls + 1
    /\ generateAllKeys(failAt)
    /\ UNCHANGED now
    /\ UNCHANGED lifeParked

\* authSaga.js handleLogin, step 3: KeyManager.initialize(). On a store with
\* an identity it loads the identity and returns {isNewDevice: false}; on a
\* store without one it runs _generateAllKeys and returns {isNewDevice: true},
\* a result without a bundle.
initialize(failAt) ==
    /\ tasks.pc = "idle"
    /\ calls < MaxLifeCalls
    /\ calls' = calls + 1
    /\ IF store.ik # NULL
       THEN /\ failAt = 0
            /\ cache' = [identityKeyPair |-> store.ik, initialized |-> TRUE]
            /\ UNCHANGED <<store, nextKey>>
            /\ tasks' = [LifeIdle EXCEPT !.pc = "initialized"]
            /\ done' = done \cup {LifeDone("initialize", TRUE, store, store, <<>>, 0)}
       ELSE generateAllKeys(failAt)
    /\ UNCHANGED now
    /\ UNCHANGED lifeParked

\* handleLogin, step 4a: PreKeyManager.uploadInitialKeys(bundle) sends the
\* bundle the saga destructured from initialize()'s result.
uploadInitialKeys ==
    /\ tasks.pc = "initialized" /\ tasks.isNewDevice
    /\ done' = done \cup
          {[LifeDone("upload", TRUE, store, store, <<>>, 0)
               EXCEPT !.call = calls, !.bundle = tasks.bundle]}
    /\ tasks' = LifeIdle
    /\ UNCHANGED <<store, cache, calls, nextKey, now>>
    /\ UNCHANGED lifeParked

\* handleLogin, step 4b: rotateSignedPreKeyIfNeeded. shouldRotateSignedPreKey
\* is true without a stored timestamp or SPK_ROTATION_DAYS after it; then
\* generateSignedPreKey runs. PreKeyManager catches what it throws.
rotateSignedPreKeyIfNeeded(failAt) ==
    LET should == store.rotationTs = 0
                     \/ now - store.rotationTs >= SPK_ROTATION_DAYS
        ws == IF should
              THEN SignedPreKeyWrites(cache.identityKeyPair, KeyPair(nextKey), now)
              ELSE <<>>
        n == Written(ws, failAt)
    IN  /\ tasks.pc = "initialized" /\ ~tasks.isNewDevice
        /\ failAt \in 0..Len(ws)
        /\ failAt # 0 => store.failed < MaxFailed
        /\ store' = [setItems(store, ws, n)
                        EXCEPT !.failed = IF failAt # 0 THEN @ + 1 ELSE @]
        /\ nextKey' = IF should THEN nextKey + 1 ELSE nextKey
        /\ tasks' = [tasks EXCEPT !.pc = "rotated"]
        /\ done' = done \cup
              {[LifeDone("rotate", failAt = 0, store, store', ws, n)
                   EXCEPT !.call = calls, !.rotated = should /\ failAt = 0]}
        /\ UNCHANGED <<cache, calls, now>>
        /\ UNCHANGED lifeParked

\* handleLogin, step 4b: checkAndRefillPreKeys. When the server's count is
\* low it runs generateOneTimePreKeys(BATCH_SIZE); it catches what that throws.
checkAndRefillPreKeys(low, failAt) ==
    LET ws == IF low
              THEN OneTimePreKeyWrites(store.opkIds, nextKey, now, OPK_BATCH_SIZE)
              ELSE <<>>
        n == Written(ws, failAt)
    IN  /\ tasks.pc = "rotated"
        /\ failAt \in 0..Len(ws)
        /\ failAt # 0 => store.failed < MaxFailed
        /\ store' = [setItems(store, ws, n)
                        EXCEPT !.failed = IF failAt # 0 THEN @ + 1 ELSE @]
        /\ nextKey' = IF low THEN nextKey + OPK_BATCH_SIZE ELSE nextKey
        /\ tasks' = LifeIdle
        /\ done' = done \cup
              {[LifeDone("refill", failAt = 0, store, store', ws, n)
                   EXCEPT !.call = calls]}
        /\ UNCHANGED <<cache, calls, now>>
        /\ UNCHANGED lifeParked

\* wipeAllKeys: the removeItem calls it awaits, in order.
WipeRemovals(st) ==
    [i \in 1..Len(st.opkIds) |-> [key |-> "signal_opk_", value |-> st.opkIds[i]]]
    \o << [key |-> "signal_ik", value |-> 0],
          [key |-> "signal_opk_ids", value |-> 0],
          [key |-> "signal_current_spk_id", value |-> 0],
          [key |-> "signal_spk_rotation_ts", value |-> 0] >>

\* authSaga.js handleLogout: KeyManager.wipeAllKeys(). The removeItem at
\* failAt fails and is swallowed.
wipeAllKeys(failAt) ==
    LET ws == WipeRemovals(store)
    IN  /\ tasks.pc = "idle"
        /\ calls < MaxLifeCalls
        /\ calls' = calls + 1
        /\ failAt \in 0..Len(ws)
        /\ failAt # 0 => store.failed < MaxFailed
        /\ store' = [removeItems(store, ws, Len(ws), failAt)
                        EXCEPT !.failed = IF failAt # 0 THEN @ + 1 ELSE @]
        /\ cache' = [identityKeyPair |-> NULL, initialized |-> FALSE]
        /\ done' = done \cup
              {[LifeDone("wipe", failAt = 0, store, store', <<>>, 0)
                   EXCEPT !.memory = cache']}
        /\ UNCHANGED <<tasks, nextKey, now>>
        /\ UNCHANGED lifeParked

\* The writes of the longest call.
MaxWrites == 5 + OPK_BATCH_SIZE + MaxLifeCalls * OPK_BATCH_SIZE

LNext ==
    \/ Tick
    \/ \E failAt \in 0..MaxWrites : initialize(failAt)
    \/ uploadInitialKeys
    \/ \E failAt \in 0..MaxWrites : rotateSignedPreKeyIfNeeded(failAt)
    \/ \E low \in BOOLEAN, failAt \in 0..MaxWrites : checkAndRefillPreKeys(low, failAt)
    \/ \E failAt \in 0..MaxWrites : wipeAllKeys(failAt)

SpecLifecycle == LInit /\ [][LNext]_vars

\* The calls that generate keys.
Generating == {"initialize", "rotate", "refill"}

\* The persisted key state is whole: an identity comes with a current signed
\* pre-key, the current id names a stored record, every stored one-time
\* pre-key is in the id list.
KeyStateWhole(st) ==
    /\ st.ik # NULL => st.currentSpkId # 0
    /\ st.currentSpkId # 0 => StoredSignedPreKey(st, st.currentSpkId) # {}
    /\ \A k \in st.opks : \E i \in 1..Len(st.opkIds) : st.opkIds[i] = k.keyId

\* C22: a key generation in which a secure-store write fails leaves the
\* persisted key state as it was before the call, and the persisted key state
\* is whole in every reachable state.
TransactionalKeyGeneration ==
    /\ \A d \in done : (d.kind \in Generating /\ ~d.ok) => d.unchanged
    /\ KeyStateWhole(store)

StoredBundle(st) ==
    buildPublicKeyBundle(st.ik,
        CHOOSE k \in st.spks : k.keyId = st.currentSpkId,
        [i \in 1..Len(st.opkIds) |-> CHOOSE k \in st.opks : k.keyId = st.opkIds[i]])

\* C24: on a device without an identity initialize() returns isNewDevice true,
\* and what the login flow uploads before the login succeeds is the public
\* bundle of the keys just generated.
FirstLoginPublication ==
    \A d \in done :
        d.kind = "upload" => (d.bundle # NULL /\ d.bundle = StoredBundle(d.after))

\* C25: with a stored rotation timestamp, a rotateSignedPreKeyIfNeeded in
\* which no write is rejected installs a new signed pre-key exactly when
\* SPK_ROTATION_DAYS or more have passed since the timestamp and otherwise
\* changes nothing; after a rotation getSignedPreKey(previous id) still
\* returns the previous signed pre-key.
SignedPreKeyRotation ==
    \A d \in done :
        (d.kind = "rotate" /\ d.hadTs /\ d.ok) =>
            /\ d.rotated <=> d.due
            /\ ~d.due => d.unchanged
            /\ d.rotated => (d.previousKept /\ d.after.currentSpkId \in d.spkIds)

\* C26: every id a call assigns to a signed pre-key is greater than every id
\* an earlier call assigned to a signed pre-key, and so for the one-time
\* pre-keys, whatever the time between the calls.
KeyIdsNeverReused ==
    \A d, e \in done :
        d.call < e.call =>
            /\ \A i \in d.spkIds, j \in e.spkIds : i < j
            /\ \A i \in d.opkIds, j \in e.opkIds : i < j

\* C27: after wipeAllKeys the store holds no identity, no signed pre-key
\* record, no one-time pre-key record and no key index, and the KeyManager
\* holds no identity in memory.
WipeOnLogout ==
    \A d \in done :
        d.kind = "wipe" =>
            /\ d.after.ik = NULL
            /\ d.after.spks = {}
            /\ d.after.opks = {}
            /\ d.after.currentSpkId = 0 /\ d.after.opkIds = <<>>
            /\ d.memory.identityKeyPair = NULL /\ ~d.memory.initialized

\* --------------------------------- SessionManager.js: the sessions of a user

\* The users the device talks to.
Users == {"bob", "carol"}
\* The largest device_id a key bundle carries (0: the bundle has none).
MaxDevice == 2
\* createOutboundSession / createInboundSession / deleteAllSessions calls.
MaxDeviceCalls == 4

\* _buildSessionId
buildSessionId(userId, deviceId) == <<userId, deviceId>>

\* The session ids of userId among ids.
SessionsOf(userId, ids) == {id \in ids : id[1] = userId}

DInit ==
    /\ store = [sessions |-> {}, failed |-> 0]
    /\ cache = {}
    /\ done = {}
    /\ calls = 0
    /\ tasks = NULL /\ nextKey = 0 /\ now = 0
    /\ heap = <<>> /\ peer = NULL /\ net = {}
    /\ rs = NULL /\ sent = NULL /\ evicted = NULL /\ inbox = NULL /\ errs = {}

deviceParked == <<rs, net, sent, evicted, inbox, errs, heap, peer, tasks, nextKey, now>>

\* _saveSession(sessionId, session): the cache entry, then the setItem, which
\* rejects when fails.
saveSessionUnder(sessionId, fails) ==
    /\ calls < MaxDeviceCalls
    /\ calls' = calls + 1
    /\ fails => store.failed < MaxFailed
    /\ cache' = cache \cup {sessionId}
    /\ store' = IF fails THEN [store EXCEPT !.failed = @ + 1]
                ELSE [store EXCEPT !.sessions = @ \cup {sessionId}]
    /\ done' = done \cup
          {[call |-> calls + 1, kind |-> "create", userId |-> sessionId[1],
            deviceId |-> sessionId[2], ok |-> ~fails, left |-> {}]}
    /\ UNCHANGED deviceParked

\* createOutboundSession(recipientUserId, recipientKeyBundle): the session is
\* saved under the bundle's device_id, or 0 when the bundle has none.
createOutboundSessionFor(recipientUserId, device_id, fails) ==
    saveSessionUnder(buildSessionId(recipientUserId, device_id), fails)

\* createInboundSession(senderUserId, ...): the session is saved under device 0.
createInboundSessionFrom(senderUserId, fails) ==
    saveSessionUnder(buildSessionId(senderUserId, 0), fails)

\* deleteAllSessions(userId): the entry and the record of device 0 go; a
\* failure of removeItem is swallowed.
deleteAllSessionsOf(userId, fails) ==
    LET sessionId == buildSessionId(userId, 0)
    IN  /\ calls < MaxDeviceCalls
        /\ calls' = calls + 1
        /\ fails => store.failed < MaxFailed
        /\ cache' = cache \ {sessionId}
        /\ store' = IF fails THEN [store EXCEPT !.failed = @ + 1]
                    ELSE [store EXCEPT !.sessions = @ \ {sessionId}]
        /\ done' = done \cup
              {[call |-> calls + 1, kind |-> "delete", userId |-> userId,
                deviceId |-> 0, ok |-> ~fails,
                left |-> SessionsOf(userId, store'.sessions \cup cache')]}
        /\ UNCHANGED deviceParked

\* The key bundles of a user, by what createOutboundSession reads of them.
KeyBundles == {[device_id |-> n] : n \in 0..MaxDevice}

\* hasSession(userId): the cache entry or the record of device 0.
hasSessionOf(userId, memory, records) == buildSessionId(userId, 0) \in memory \cup records

\* encryptMessage(recipientUserId, plaintext, keyBundle): loadSession of
\* device 0; without a session and with a bundle, createOutboundSession and
\* loadSession of device 0 again; ratchetEncrypt of the session that was
\* loaded; _saveSession under device 0. bundle is NULL without a keyBundle;
\* fails: the first setItem of the call rejects.
encryptMessageTo(recipientUserId, bundle, fails) ==
    LET sessionId == buildSessionId(recipientUserId, 0)
        had == hasSessionOf(recipientUserId, cache, store.sessions)
        created == buildSessionId(recipientUserId, bundle.device_id)
        x3dh == ~had /\ bundle # NULL
        saved == IF had THEN {sessionId} ELSE IF x3dh THEN {created} ELSE {}
        error == IF saved = {} THEN "nosession"
                 ELSE IF fails THEN "storage"
                 ELSE IF sessionId \notin saved THEN "type"
                 ELSE "none"
    IN  /\ calls < MaxDeviceCalls
        /\ calls' = calls + 1
        /\ fails => (store.failed < MaxFailed /\ saved # {})
        /\ cache' = (cache \cup saved) \cup
                        (IF had THEN {sessionId} ELSE {})
        /\ store' = IF fails THEN [store EXCEPT !.failed = @ + 1]
                    ELSE [store EXCEPT !.sessions = @ \cup saved]
        /\ done' = done \cup
              {[call |-> calls + 1, kind |-> "encrypt", userId |-> recipientUserId,
                bundle |-> bundle, hadSession |-> had, ok |-> error = "none",
                error |-> error, x3dh |-> x3dh,
                hasSession |-> hasSessionOf(recipientUserId, cache', store'.sessions)]}
        /\ UNCHANGED deviceParked

DNext ==
    \/ \E u \in Users, device_id \in 0..MaxDevice, fails \in BOOLEAN :
          createOutboundSessionFor(u, device_id, fails)
    \/ \E u \in Users, fails \in BOOLEAN : createInboundSessionFrom(u, fails)
    \/ \E u \in Users, fails \in BOOLEAN : deleteAllSessionsOf(u, fails)
    \/ \E u \in Users, bundle \in KeyBundles \cup {NULL}, fails \in BOOLEAN :
          encryptMessageTo(u, bundle, fails)

SpecDevices == DInit /\ [][DNext]_vars

\* C28: after deleteAllSessions(userId) the device holds no session of that
\* user, in the store or in memory, under any device id.
AllSessionsDeleted ==
    \A d \in done : d.kind = "delete" => d.left = {}

\* C37: encryptMessage with a key bundle, of any device_id, to a user without
\* a session succeeds and leaves a session that hasSession finds, and
\* encryptMessage to a user with a session needs no bundle and runs no X3DH.
FirstSendForEveryBundle ==
    \A d \in done :
        (d.kind = "encrypt" /\ d.error # "storage") =>
            /\ (~d.hadSession /\ d.bundle # NULL) => (d.ok /\ d.hasSession)
            /\ d.hadSession => (d.ok /\ ~d.x3dh)

\* ------------------------------ SessionManager.js: _computeSafetyNumber

\* Bytes in an identity public key of the model (the source's keys have 32).
KeyLen == 3
\* The values the bytes of the keys are drawn from.
KeyBytes == {0, 1, 255}
IdentityKeys == [1..KeyLen -> KeyBytes]

\* btoa: the character code of the base64 digit v.
Base64Code(v) ==
    IF v < 26 THEN 65 + v
    ELSE IF v < 52 THEN 97 + (v - 26)
    ELSE IF v < 62 THEN 48 + (v - 52)
    ELSE IF v = 62 THEN 43 ELSE 47

\* bytesToBase64: the base64 text of the bytes, as its character codes; a
\* last group of one or two bytes is padded with '=' (61).
bytesToBase64(bytes) ==
    LET n == Len(bytes)
        Byte(i) == IF i <= n THEN bytes[i] ELSE 0
        Char(k) ==
            LET g == (k - 1) \div 4
                b1 == Byte(3 * g + 1)
                b2 == Byte(3 * g + 2)
                b3 == Byte(3 * g + 3)
                pos == (k - 1) % 4
            IN  CASE pos = 0 -> Base64Code(b1 \div 4)
                  [] pos = 1 -> Base64Code((b1 % 4) * 16 + b2 \div 16)
                  [] pos = 2 -> IF 3 * g + 2 > n THEN 61
                                ELSE Base64Code((b2 % 16) * 4 + b3 \div 64)
                  [] pos = 3 -> IF 3 * g + 3 > n THEN 61
                                ELSE Base64Code(b3 % 64)
    IN  [k \in 1..(4 * ((n + 2) \div 3)) |-> Char(k)]

\* A 32-bit integer as its two 16-bit halves.
Half == 65536

\* hash = ((hash << 5) - hash + charCode) | 0: 31 * hash + charCode, kept to
\* 32 bits.
HashStep(hash, charCode) ==
    LET lo == hash.lo * 31 + charCode
    IN  [hi |-> (hash.hi * 31 + lo \div Half) % Half, lo |-> lo % Half]

\* The loop over the characters base[1..n].
RECURSIVE HashOf(_, _)
HashOf(base, n) ==
    IF n = 0 THEN [hi |-> 0, lo |-> 0]
    ELSE HashStep(HashOf(base, n - 1), base[n])

\* Math.abs of the signed 32-bit integer hash.
MathAbs(hash) ==
    IF hash.hi < Half \div 2 THEN hash
    ELSE IF hash.lo = 0 THEN [hi |-> Half - hash.hi, lo |-> 0]
    ELSE [hi |-> Half - 1 - hash.hi, lo |-> Half - hash.lo]

\* num.toString().padStart(10, '0'): the ten decimal digits of num.
Pow10(k) == IF k = 0 THEN 1 ELSE IF k = 1 THEN 10 ELSE IF k = 2 THEN 100 ELSE IF k = 3 THEN 1000 ELSE IF k = 4 THEN 10000 ELSE IF k = 5 THEN 100000 ELSE IF k = 6 THEN 1000000 ELSE IF k = 7 THEN 10000000 ELSE IF k = 8 THEN 100000000 ELSE 1000000000
PadStart10(num) ==
    IF num.hi = Half \div 2
    THEN <<2, 1, 4, 7, 4, 8, 3, 6, 4, 8>>
    ELSE [i \in 1..10 |-> ((num.hi * Half + num.lo) \div Pow10(10 - i)) % 10]

\* _computeSafetyNumber(remoteIK, localIK): the hash of the base64 text of
\* localIK followed by remoteIK, as groups of five digits.
computeSafetyNumber(remoteIK, localIK) ==
    LET combined == localIK \o remoteIK
        base == bytesToBase64(combined)
        digits == PadStart10(MathAbs(HashOf(base, Len(base))))
    IN  << SubSeq(digits, 1, 5), SubSeq(digits, 6, 10) >>

\* Two devices, each with its identity public key.
FInit ==
    /\ store \in [Sides -> IdentityKeys]
    /\ done = {}
    /\ cache = 0 /\ calls = 0 /\ tasks = NULL /\ nextKey = 0 /\ now = 0
    /\ heap = <<>> /\ peer = NULL /\ net = {}
    /\ rs = NULL /\ sent = NULL /\ evicted = NULL /\ inbox = NULL /\ errs = {}

\* The holder of one key computes the safety number about the other.
SafetyNumberAt(holder) ==
    /\ \A d \in done : d.holder # holder
    /\ done' = done \cup
          {[holder |-> holder,
            safetyNumber |-> computeSafetyNumber(store[Other(holder)], store[holder])]}
    /\ UNCHANGED <<store, cache, calls, tasks, nextKey, now>>
    /\ UNCHANGED <<rs, net, sent, evicted, inbox, errs, heap, peer>>

FNext == \E holder \in Sides : SafetyNumberAt(holder)

SpecSafetyNumber == FInit /\ [][FNext]_vars

\* C30: the safety number the holder of A computes about B is the one the
\* holder of B computes about A.
SafetyNumberSymmetric ==
    \A d, e \in done : d.safetyNumber = e.safetyNumber

\* ------------------------------------------- the ratchet, step by step

\* The fields of a ratchet state a ratchetEncrypt leaves alone.
SendFrame(state) ==
    <<state.DHs, state.DHr, state.RK, state.CKr, state.Nr, state.PN, state.MKSKIPPED>>

StepEffect(side, m) ==
    /\ rs'[side].DHr = m.header.dh
    /\ rs'[side].DHs # rs[side].DHs
    /\ rs'[side].DHs = KeyPair(nextKey)
    /\ rs'[side].PN = rs[side].Ns
    /\ rs'[side].Ns = 0
    /\ rs'[side].Nr = m.header.n + 1

\* While DHr stays, Ns and Nr do not decrease.
CountersMonotonic ==
    \A side \in Sides :
        rs'[side].DHr = rs[side].DHr =>
            (rs'[side].Ns >= rs[side].Ns /\ rs'[side].Nr >= rs[side].Nr)

\* C32 as stated: whenever a message whose header.dh is not the receiver's DHr
\* decrypts, the receiver then has DHr = header.dh, a fresh DHs, PN = the old
\* Ns, Ns = 0 and Nr = header.n + 1; and between such steps Ns and Nr never
\* decrease.
DHRatchetStepOnEveryNewKey ==
    [][/\ \A m \in net \ net' :
             m.header.dh # rs[Other(m.from)].DHr => StepEffect(Other(m.from), m)
       /\ CountersMonotonic]_vars

\* C32 amended: the same, for the messages whose key is not in the receiver's
\* skipped-key cache; a message decrypted with a cached key changes nothing
\* but the cache.
DHRatchetStep ==
    [][/\ \A m \in net \ net' :
             LET side == Other(m.from)
             IN  IF MapHas(rs[side].MKSKIPPED, MapKey(m.header.dh, m.header.n))
                 THEN rs' = [rs EXCEPT ![side].MKSKIPPED =
                                MapDelete(@, MapKey(m.header.dh, m.header.n))]
                 ELSE m.header.dh # rs[side].DHr => StepEffect(side, m)
       /\ CountersMonotonic]_vars

\* Alice sent two messages, then decrypted Bob's first reply: a DH ratchet step.
DHRatchetStepWitness ==
    /\ rs["alice"].DHr # K.bobSPK
    /\ rs["alice"].PN = 2 /\ rs["alice"].Ns = 0 /\ rs["alice"].Nr = 1
    /\ rs["alice"].DHs # KeyPair(K.aliceDH)

\* side has the current ratchet key of the other side as its DHr.
Ahead(side) == rs[side].DHr = rs[Other(side)].DHs.publicKey

\* C33 as stated: once a message of one side has been decrypted by the other,
\* the two sides hold the same root key.
RootKeysEqual ==
    (\E side \in Sides : inbox[side] # {}) => rs["alice"].RK = rs["bob"].RK

\* C33 amended: at every moment one side at least has the other's current
\* ratchet key as its DHr, and the root key of such a side is one kdfRK step
\* from the other side's root key, the step the other side takes when it
\* decrypts the next message of a new chain.
RootKeysInStep ==
    /\ \E side \in Sides : Ahead(side)
    /\ \A side \in Sides :
          Ahead(side) =>
              rs[side].RK =
                  kdfRK(rs[Other(side)].RK,
                        dh(rs[side].DHs.privateKey,
                           rs[Other(side)].DHs.publicKey)).newRootKey

\* Messages went both ways, with a DH ratchet step at each side, and Alice is
\* the side that took the last step.
RootKeysInStepWitness ==
    /\ inbox["bob"] # {} /\ inbox["alice"] # {}
    /\ Ahead("alice") /\ ~Ahead("bob")
    /\ rs["alice"].DHs # KeyPair(K.aliceDH)
    /\ rs["bob"].DHs # KeyPair(K.bobSPK)

\* ------------------------------------------------ the same ciphertext, again

\* Messages the two sides encrypt when the network keeps every message.
MaxKept == 4

\* The deliveries to side of messages it had decrypted before.
Replays(side) == {d \in done : d.from = Other(side)}

AgainInit ==
    /\ rs = RatchetPair(K.bobOPK)
    /\ net = {}
    /\ sent = [s \in Sides |-> 0]
    /\ evicted = [s \in Sides |-> FALSE]
    /\ nextKey = K.fresh
    /\ inbox = [s \in Sides |-> {}]
    /\ errs = {}
    /\ done = {}
    /\ store = NULL /\ cache = 0 /\ heap = <<>> /\ tasks = <<>>
    /\ peer = NULL /\ calls = 0 /\ now = 0

AgainEncrypt(side, plaintext) ==
    /\ sent["alice"] + sent["bob"] < MaxKept
    /\ REncrypt(side, plaintext)

\* The network delivers a message and keeps it, so that it can deliver it again:
\* the receiver runs ratchetDecrypt on it and keeps the state it returns.
DeliverAgain(m) ==
    LET to == Other(m.from)
        r == ratchetDecrypt(rs[to], m.header, m.ciphertext, KeyPair(nextKey))
        after == Committed(rs[to], r)
        cached == MapHas(rs[to].MKSKIPPED, MapKey(m.header.dh, m.header.n))
    IN  /\ m \in net
        /\ rs' = [rs EXCEPT ![to] = after]
        /\ nextKey' = IF after.DHs # rs[to].DHs THEN nextKey + 1 ELSE nextKey
        /\ inbox' = IF r.ok
                    THEN [inbox EXCEPT ![to] = @ \cup
                            {[seq |-> m.seq, exact |-> r.plaintext = m.plaintext,
                              cached |-> cached]}]
                    ELSE inbox
        /\ done' = IF m.seq \in Decrypted(inbox, to)
                   THEN done \cup {[from |-> m.from, seq |-> m.seq, ok |-> r.ok,
                                    unchanged |-> rs'[to] = rs[to],
                                    cached |-> \E e \in inbox[to] : e.seq = m.seq /\ e.cached,
                                    stepped |-> m.header.dh # rs[to].DHr]}
                   ELSE done
        /\ UNCHANGED <<net, sent, evicted, errs, store, cache, heap, tasks, peer, calls, now>>

AgainNext ==
    \/ \E side \in Sides : AgainEncrypt(side, "hello")
    \/ \E m \in net : DeliverAgain(m)
    \/ \E side \in Sides : RSaveLoad(side)

SpecReplay == AgainInit /\ [][AgainNext]_vars

\* C36: a message that was decrypted, in order or with a key of the skipped-key
\* cache, never decrypts again, also after DH ratchet steps, and its delivery
\* leaves the ratchet state what it was.
DecryptedAtMostOnce ==
    \A d \in done : ~d.ok /\ d.unchanged

\* Bob has been handed again a message he had decrypted in order, one he had
\* decrypted with a cached key, and one of a chain he has since left.
DecryptedAtMostOnceWitness ==
    /\ \E d \in Replays("bob") : ~d.cached /\ ~d.stepped
    /\ \E d \in Replays("bob") : d.cached
    /\ \E d \in Replays("bob") : d.stepped

\* ------------------------------------------------ the sessions, at every moment

\* A stored ratchet state has a root key, a sending DH pair and a chain key.
Live(state) ==
    /\ state.RK # NULL
    /\ state.DHs_pub # 0 /\ state.DHs_priv # 0
    /\ state.CKs # NULL \/ state.CKr # NULL

\* C34: the session in the secure store and the session in the cache have, at
\* every moment, RK, DHs and at least one of CKs and CKr; and an
\* encryptMessage on an existing session that fails leaves the session as it
\* was.
LiveSessionInvariant ==
    /\ store.session # NULL => Live(store.session.ratchetState)
    /\ cache # 0 => Live(serializeRatchetState(heap[cache].ratchetState))
    /\ \A d \in done : (d.kind = "encrypt" /\ d.hadSession /\ ~d.ok) => d.unchanged

\* C35: a decryptMessage of a payload whose type is neither 'initial' nor
\* 'message' fails and leaves the session and the one-time pre-keys as they
\* were, with or without a session; and so does a decryptMessage of a
\* 'message' payload when there is no session with the sender.
MisuseOnReceive ==
    \A d \in done :
        d.kind = "decrypt" =>
            /\ d.type \notin {"initial", "message"}
                  => (~d.ok /\ d.unchanged /\ d.poolUnchanged)
            /\ (d.type = "message" /\ ~d.hadSession)
                  => (~d.ok /\ d.unchanged /\ d.poolUnchanged)

\* ------------------------------------------------ api.js: WebSocketService

\* Messages handed to WebSocketService.
MaxHanded == 3
\* WebSocket objects connect() creates.
MaxSockets == 2

\* The service after its constructor.
NewService ==
    [socket |-> 0, isConnected |-> FALSE, isConnecting |-> FALSE,
     _shouldReconnect |-> FALSE, _reconnectTimer |-> FALSE, _messageQueue |-> <<>>]

\* this.socket?.readyState === WebSocket.OPEN
SocketOpen(service, sockets) ==
    service.socket # 0 /\ sockets[service.socket] = "OPEN"

\* _send(data), on the service and the data passed to socket.send so far;
\* open: the socket is open when the call looks at it.
sendData(c, open, data) ==
    IF c.service.isConnected /\ open
    THEN [c EXCEPT !.wire = Append(@, data)]
    ELSE [c EXCEPT !.service._messageQueue = Append(@, data)]

\* The loop of _flushQueue over queue: the socket is open for the first
\* opens calls of _send and no longer after them.
RECURSIVE sendEach(_, _, _)
sendEach(c, queue, opens) ==
    IF queue = <<>> THEN c
    ELSE sendEach(sendData(c, opens > 0, Head(queue)), Tail(queue), opens - 1)

\* _flushQueue without the reset of _messageQueue.
flushQueueKept(c, opens) ==
    sendEach(c, c.service._messageQueue, opens)

\* _flushQueue
flushQueue(c, opens) ==
    sendEach([c EXCEPT !.service._messageQueue = <<>>], c.service._messageQueue, opens)

\* _cancelTimers, then _scheduleReconnect when again.
Timers(service, again) == [service EXCEPT !._reconnectTimer = again]

QInit ==
    /\ heap = NewService
    /\ net = <<>>
    /\ sent = <<>>
    /\ calls = 0
    /\ tasks = 0
    /\ inbox = {}
    /\ done = {}
    /\ rs = NULL /\ evicted = NULL /\ nextKey = 0 /\ errs = {}
    /\ store = NULL /\ cache = 0 /\ peer = NULL /\ now = 0

queueParked == <<rs, evicted, nextKey, errs, store, cache, peer, now>>

\* A caller hands the next message to _send.
Hand ==
    LET data == calls + 1
        open == SocketOpen(heap, net)
        c == sendData([service |-> heap, wire |-> sent], open, data)
    IN  /\ calls < MaxHanded
        /\ calls' = data
        /\ heap' = c.service
        /\ sent' = c.wire
        /\ inbox' = IF heap.isConnected /\ open THEN inbox ELSE inbox \cup {data}
        /\ UNCHANGED <<net, tasks, done, queueParked>>

\* connect() up to its await of getAccessToken, called by the application or,
\* when timer, by the timer of _scheduleReconnect.
connect(timer) ==
    /\ timer => heap._reconnectTimer
    /\ ~(heap.isConnected \/ heap.isConnecting)
    /\ tasks + Len(net) < MaxSockets
    /\ tasks' = tasks + 1
    /\ heap' = IF timer THEN [heap EXCEPT !._reconnectTimer = FALSE] ELSE heap
    /\ UNCHANGED <<net, sent, calls, inbox, done, queueParked>>

\* connect() after the await: without a token it returns; new WebSocket may throw.
connectResume(token, created) ==
    /\ tasks > 0
    /\ tasks' = tasks - 1
    /\ IF ~token THEN UNCHANGED <<heap, net>>
       ELSE IF created
       THEN /\ net' = Append(net, "CONNECTING")
            /\ heap' = [heap EXCEPT !.isConnecting = TRUE, !._shouldReconnect = TRUE,
                                    !.socket = Len(net) + 1]
       ELSE /\ net' = net
            /\ heap' = [heap EXCEPT !.isConnecting = FALSE, !._shouldReconnect = TRUE,
                                    !._reconnectTimer = TRUE]
    /\ UNCHANGED <<sent, calls, inbox, done, queueParked>>

\* onopen of socket i: the flags, then _flushQueue; the service's socket stays
\* open for the first opens messages of the flush.
onopen(i, opens) ==
    LET service == [heap EXCEPT !.isConnected = TRUE, !.isConnecting = FALSE]
        sockets == [net EXCEPT ![i] = "OPEN"]
        queue == service._messageQueue
        c == flushQueue([service |-> service, wire |-> sent], opens)
    IN  /\ net[i] = "CONNECTING"
        /\ IF SocketOpen(service, sockets) THEN opens \in 0..Len(queue) ELSE opens = 0
        /\ heap' = c.service
        /\ sent' = c.wire
        /\ net' = IF SocketOpen(service, sockets) /\ opens < Len(queue)
                  THEN [sockets EXCEPT ![service.socket] = "CLOSING"]
                  ELSE sockets
        /\ done' = IF queue = <<>> THEN done
                   ELSE done \cup {[queued |-> Len(queue), sent |-> Len(c.wire) - Len(sent)]}
        /\ UNCHANGED <<calls, tasks, inbox, queueParked>>

\* onclose of socket i with the close code 1000 (normal) or another.
onclose(i, normal) ==
    /\ net[i] # "CLOSED"
    /\ net' = [net EXCEPT ![i] = "CLOSED"]
    /\ heap' = Timers([heap EXCEPT !.isConnected = FALSE, !.isConnecting = FALSE],
                      heap._shouldReconnect /\ ~normal)
    /\ UNCHANGED <<sent, calls, tasks, inbox, done, queueParked>>

\* disconnect()
disconnect ==
    /\ heap.socket # 0 \/ heap._shouldReconnect
    /\ net' = IF heap.socket # 0 /\ net[heap.socket] # "CLOSED"
              THEN [net EXCEPT ![heap.socket] = "CLOSING"] ELSE net
    /\ heap' = [heap EXCEPT !._shouldReconnect = FALSE, !._reconnectTimer = FALSE,
                            !.socket = 0, !.isConnected = FALSE, !.isConnecting = FALSE]
    /\ UNCHANGED <<sent, calls, tasks, inbox, done, queueParked>>

\* The pong timer of _startPing fires: this.socket?.close().
pongTimeout ==
    /\ heap.isConnected /\ SocketOpen(heap, net)
    /\ net' = [net EXCEPT ![heap.socket] = "CLOSING"]
    /\ UNCHANGED <<heap, sent, calls, tasks, inbox, done, queueParked>>

QNext ==
    \/ Hand
    \/ \E timer \in BOOLEAN : connect(timer)
    \/ \E token \in BOOLEAN, created \in BOOLEAN : connectResume(token, created)
    \/ \E i \in 1..Len(net) : \E opens \in 0..MaxHanded : onopen(i, opens)
    \/ \E i \in 1..Len(net), normal \in BOOLEAN : onclose(i, normal)
    \/ disconnect
    \/ pongTimeout

SpecQueue == QInit /\ [][QNext]_vars

\* The messages among seq that were queued when they were handed over.
Queued(seq) == SelectSeq(seq, LAMBDA data : data \in inbox)

\* The numbers of set in rising order: the order in which they were handed over.
RECURSIVE Rising(_)
Rising(set) ==
    IF set = {} THEN <<>>
    ELSE LET least == CHOOSE x \in set : \A y \in set : x <= y
         IN  <<least>> \o Rising(set \ {least})

\* The service's socket is open and the service knows it.
Connected == heap.isConnected /\ SocketOpen(heap, net)

\* C38: the messages queued at their handover are, at every moment, the ones
\* passed to socket.send followed by the ones in the queue, each once and in
\* the order of handover, also after a flush during which the socket closed;
\* and an onopen that leaves the service connected leaves the queue empty.
OfflineQueue ==
    /\ [](Queued(sent) \o heap._messageQueue = Rising(inbox))
    /\ [][(net' # net /\ Connected' /\ ~Connected) => heap'._messageQueue = <<>>]_vars

\* Three messages were queued, a flush sent one of them before the socket
\* closed, and the flush of a later connection sent the rest.
OfflineQueueWitness ==
    /\ inbox = {1, 2, 3}
    /\ sent = <<1, 2, 3>>
    /\ \E d \in done : d.queued = 3 /\ d.sent = 1
    /\ \E d \in done : d.queued = 2 /\ d.sent = 2

\* ------------------------------------------------ api.js: the token refresh

\* Requests the application sends through api.
MaxRequests == 3
\* Token refreshes the response interceptor starts.
MaxRefreshes == 2

\* No response handler is refreshing the token.
NoRefresh == [pc |-> "none", request |-> 0]

\* processQueue(error, token): every queued request is rejected with the error
\* or, without one, resolved with the token, on which it is sent again.
processQueue(requests, failedQueue, error) ==
    [r \in DOMAIN requests |->
        IF r \in failedQueue
        THEN [requests[r] EXCEPT !.status = IF error THEN "rejected" ELSE "flight"]
        ELSE requests[r]]

TInit ==
    /\ heap = [isRefreshing |-> FALSE, failedQueue |-> {}]
    /\ tasks = <<>>
    /\ peer = NoRefresh
    /\ net = 0
    /\ calls = 0
    /\ rs = NULL /\ sent = NULL /\ evicted = NULL /\ inbox = NULL /\ errs = {}
    /\ store = NULL /\ cache = 0 /\ done = {} /\ nextKey = 0 /\ now = 0

refreshParked == <<rs, sent, evicted, inbox, errs, store, cache, done, nextKey, now>>

\* The application sends a request with the access token it has.
Request ==
    /\ Len(tasks) < MaxRequests
    /\ tasks' = Append(tasks, [status |-> "flight", _retry |-> FALSE])
    /\ UNCHANGED <<heap, peer, net, calls, refreshParked>>

\* The response interceptor's first handler: the request succeeded.
Response(r) ==
    /\ tasks[r].status = "flight"
    /\ tasks' = [tasks EXCEPT ![r].status = "ok"]
    /\ UNCHANGED <<heap, peer, net, calls, refreshParked>>

\* The error handler on a 401: the request is queued while isRefreshing; it
\* starts the refresh, up to the await of getRefreshToken, when it was not
\* retried; it is rejected otherwise.
Unauthorized(r) ==
    /\ tasks[r].status = "flight"
    /\ IF tasks[r]._retry
       THEN /\ tasks' = [tasks EXCEPT ![r].status = "rejected"]
            /\ UNCHANGED <<heap, peer, calls>>
       ELSE IF heap.isRefreshing
       THEN /\ tasks' = [tasks EXCEPT ![r].status = "queued"]
            /\ heap' = [heap EXCEPT !.failedQueue = @ \cup {r}]
            /\ UNCHANGED <<peer, calls>>
       ELSE /\ calls < MaxRefreshes
            /\ calls' = calls + 1
            /\ tasks' = [tasks EXCEPT ![r].status = "refreshing", ![r]._retry = TRUE]
            /\ heap' = [heap EXCEPT !.isRefreshing = TRUE]
            /\ peer' = [pc |-> "getRefreshToken", request |-> r]
    /\ UNCHANGED <<net, refreshParked>>

\* The catch block up to its await of clearAll: processQueue(refreshError).
RefreshFailed ==
    /\ tasks' = processQueue(tasks, heap.failedQueue, TRUE)
    /\ heap' = [heap EXCEPT !.failedQueue = {}]
    /\ peer' = [peer EXCEPT !.pc = "clearAll"]

\* getRefreshToken returned: the refresh request is posted, or there is no
\* refresh token.
Post(refreshToken) ==
    /\ peer.pc = "getRefreshToken"
    /\ IF refreshToken
       THEN /\ peer' = [peer EXCEPT !.pc = "post"]
            /\ net' = net + 1
            /\ UNCHANGED <<heap, tasks>>
       ELSE /\ RefreshFailed
            /\ net' = net
    /\ UNCHANGED <<calls, refreshParked>>

\* The refresh request returned: storeTokens, or the request failed.
Posted(ok) ==
    /\ peer.pc = "post"
    /\ net' = net - 1
    /\ IF ok
       THEN /\ peer' = [peer EXCEPT !.pc = "storeTokens"]
            /\ UNCHANGED <<heap, tasks>>
       ELSE RefreshFailed
    /\ UNCHANGED <<calls, refreshParked>>

\* storeTokens returned: setTokens, processQueue(null, access_token), the
\* original request is sent again, and the finally block clears the flag; or
\* storeTokens threw.
Stored(ok) ==
    /\ peer.pc = "storeTokens"
    /\ IF ok
       THEN /\ tasks' = [processQueue(tasks, heap.failedQueue, FALSE)
                            EXCEPT ![peer.request].status = "flight"]
            /\ heap' = [isRefreshing |-> FALSE, failedQueue |-> {}]
            /\ peer' = NoRefresh
       ELSE RefreshFailed
    /\ UNCHANGED <<net, calls, refreshParked>>

\* clearAll returned or threw: the original request is rejected and the
\* finally block clears the flag.
Cleared ==
    /\ peer.pc = "clearAll"
    /\ tasks' = [tasks EXCEPT ![peer.request].status = "rejected"]
    /\ heap' = [heap EXCEPT !.isRefreshing = FALSE]
    /\ peer' = NoRefresh
    /\ UNCHANGED <<net, calls, refreshParked>>

TNext ==
    \/ Request
    \/ \E r \in 1..Len(tasks) : Response(r)
    \/ \E r \in 1..Len(tasks) : Unauthorized(r)
    \/ \E refreshToken \in BOOLEAN : Post(refreshToken)
    \/ \E ok \in BOOLEAN : Posted(ok)
    \/ \E ok \in BOOLEAN : Stored(ok)
    \/ Cleared

SpecRefresh == TInit /\ [][TNext]_vars

\* The requests waiting in failedQueue.
Pending == {r \in 1..Len(tasks) : tasks[r].status = "queued"}

\* C39: at most one refresh request is in flight; and when no refresh is
\* running the flag is clear and no request that was queued behind a refresh
\* is still waiting: each was sent again or rejected.
SingleFlightRefresh ==
    /\ net <= 1
    /\ peer = NoRefresh => (~heap.isRefreshing /\ Pending = {})

\* ------------------------------------------------ WebRTCManager and callsSlice

\* initiateCallStart actions the chat screen dispatches.
MaxCallStarts == 2
\* Presses of the call screen's hang-up button.
MaxEndCalls == 2

\* callsSlice: the states in which the call screen stays open.
ActiveCall == {"initiating", "ringing", "connecting", "connected"}

\* _cleanup
cleanup(manager) ==
    [manager EXCEPT !.localStream = FALSE, !.peerConnection = FALSE, !.remoteUserId = FALSE]

CInit ==
    /\ heap = [callState |-> "idle", remoteUserId |-> FALSE, localStream |-> FALSE,
               peerConnection |-> FALSE]
    /\ store = [callState |-> "idle"]
    /\ tasks = [initiateCall |-> "none", endCall |-> 0]
    /\ calls = 0
    /\ sent = 0
    /\ done = {}
    /\ rs = NULL /\ net = {} /\ evicted = NULL /\ inbox = NULL /\ errs = {}
    /\ cache = 0 /\ peer = NULL /\ nextKey = 0 /\ now = 0

callParked == <<rs, net, evicted, inbox, errs, cache, peer, nextKey, now>>

\* The chat screen dispatches initiateCallStart: the reducer, then
\* handleInitiateCall calls initiateCall, which throws unless the manager is
\* idle (the saga then puts callFailed) and otherwise runs up to its await of
\* getUserMedia.
initiateCallStart ==
    LET accepted == heap.callState = "idle"
    IN  /\ calls < MaxCallStarts
        /\ calls' = calls + 1
        /\ done' = done \cup {[call |-> calls + 1, callState |-> heap.callState,
                                accepted |-> accepted]}
        /\ IF accepted
           THEN /\ heap' = [heap EXCEPT !.callState = "initiating", !.remoteUserId = TRUE]
                /\ tasks' = [tasks EXCEPT !.initiateCall = "getUserMedia"]
                /\ store' = [callState |-> "initiating"]
           ELSE /\ store' = [callState |-> "failed"]
                /\ UNCHANGED <<heap, tasks>>
        /\ UNCHANGED <<sent, callParked>>

\* initiateCall after getUserMedia: the stream and the peer connection, up to
\* the awaits of createOffer, setLocalDescription and _sendSignal; or
\* getUserMedia rejected and the saga puts callFailed.
acquireLocalMedia(ok) ==
    /\ tasks.initiateCall = "getUserMedia"
    /\ IF ok
       THEN /\ heap' = [heap EXCEPT !.localStream = TRUE, !.peerConnection = TRUE]
            /\ tasks' = [tasks EXCEPT !.initiateCall = "sendSignal"]
            /\ store' = store
       ELSE /\ tasks' = [tasks EXCEPT !.initiateCall = "none"]
            /\ store' = [callState |-> "failed"]
            /\ heap' = heap
    /\ UNCHANGED <<calls, sent, done, callParked>>

\* initiateCall after _sendSignal: RINGING; or the offer or its encryption
\* failed, or _cleanup took the peer connection away, and the saga puts callFailed.
sendOffer(ok) ==
    /\ tasks.initiateCall = "sendSignal"
    /\ tasks' = [tasks EXCEPT !.initiateCall = "none"]
    /\ IF ok /\ heap.peerConnection
       THEN /\ heap' = [heap EXCEPT !.callState = "ringing"]
            /\ store' = store
       ELSE /\ heap' = heap
            /\ store' = [callState |-> "failed"]
    /\ UNCHANGED <<calls, sent, done, callParked>>

\* onconnectionstatechange of the peer connection.
onconnectionstatechange(state) ==
    /\ heap.peerConnection
    /\ heap' = IF state = "connected" THEN [heap EXCEPT !.callState = "connected"]
               ELSE IF state \in {"disconnected", "failed"}
               THEN cleanup([heap EXCEPT !.callState = "failed"])
               ELSE [heap EXCEPT !.callState = "ended"]
    /\ UNCHANGED <<store, tasks, calls, sent, done, callParked>>

\* endCall up to its await of _sendSignal, or to its end without a remote user.
endCall(manager) ==
    IF manager.remoteUserId THEN [manager EXCEPT !.callState = "ending"]
    ELSE cleanup([manager EXCEPT !.callState = "ended"])

\* The call screen's handleEndCall: WebRTCManager.endCall(), then
\* dispatch(callEnded()), whose reducer resets the slice and on which
\* handleEndCall of the saga calls endCall again.
handleEndCall ==
    /\ store.callState \in ActiveCall
    /\ sent < MaxEndCalls
    /\ sent' = sent + 1
    /\ heap' = endCall(endCall(heap))
    /\ tasks' = [tasks EXCEPT !.endCall = IF heap.remoteUserId THEN @ + 2 ELSE @]
    /\ store' = [callState |-> "idle"]
    /\ UNCHANGED <<calls, done, callParked>>

\* endCall after _sendSignal, whose failure it swallows: _cleanup and ENDED.
endCallResume ==
    /\ tasks.endCall > 0
    /\ tasks' = [tasks EXCEPT !.endCall = @ - 1]
    /\ heap' = cleanup([heap EXCEPT !.callState = "ended"])
    /\ UNCHANGED <<store, calls, sent, done, callParked>>

CNext ==
    \/ initiateCallStart
    \/ \E ok \in BOOLEAN : acquireLocalMedia(ok)
    \/ \E ok \in BOOLEAN : sendOffer(ok)
    \/ \E state \in {"connected", "disconnected", "failed", "closed"} :
          onconnectionstatechange(state)
    \/ handleEndCall
    \/ endCallResume

SpecCall == CInit /\ [][CNext]_vars /\ WF_vars(CNext)

\* No call of the manager is running.
CallsReturned == tasks.initiateCall = "none" /\ tasks.endCall = 0

\* C40: initiateCall is accepted only while the manager is idle; once the
\* manager's call has ended or failed the manager gets back to idle, where
\* initiateCall is accepted; and when no call of the manager is running its
\* call state is the call state of the Redux slice.
CallLifecycle ==
    /\ [](\A d \in done : d.accepted => d.callState = "idle")
    /\ (heap.callState \in {"ended", "failed"}) ~> (heap.callState = "idle")
    /\ [](CallsReturned => heap.callState = store.callState)

====
